---------------------------- MODULE Spec2Model ----------------------------
(***************************************************************************)
(* Model of the CryptoReels game core: SymbolConfigurationService (the     *)
(* symbol catalog), SlotEngineService (bit extraction, reel generation,    *)
(* win evaluation) and CascadingReelsService (the cascade loop).           *)
(*                                                                         *)
(* Representation:                                                         *)
(*  - a VRF number is the sequence of its hex digits after the 0x prefix,  *)
(*    most significant first; its value never fits a machine integer, so   *)
(*    bits are read from the digits;                                       *)
(*  - payout multipliers are held in quarter units (0.5 is 2, 3.75 is 15), *)
(*    which makes every catalog payout an integer;                         *)
(*  - reel and cell indices inside records keep the 0-based values of the  *)
(*    code; TLA+ sequences are 1-based;                                    *)
(*  - an array built by a function constructor is concatenated with << >>, *)
(*    which leaves its value unchanged and makes TLC hold it as a tuple.   *)
(***************************************************************************)
EXTENDS Integers, Sequences, FiniteSets, TLC

(***************************************************************************)
(* Bounds of the checked input space.                                      *)
(***************************************************************************)
MaxSeed == 24

VrfLen == 100

MaxValue == 300

MaxStartBit == 10

MaxBitCount == 4

(***************************************************************************)
(* JavaScript values that are not symbol ids.                              *)
(***************************************************************************)
Null == "null"

Undefined == "undefined"

(***************************************************************************)
(* SymbolConfigurationService: the catalog.                                *)
(***************************************************************************)
SymbolIds ==
  << "diamond_hands", "crypto_wallet", "blockchain_block", "defi_token",
     "nft_collectible", "sol", "eth", "btc", "wild", "scatter",
     "nft_character" >>

SymbolIdSet == { SymbolIds[i] : i \in 1..Len(SymbolIds) }

SymbolType ==
  [ s \in SymbolIdSet |->
      CASE s = "wild" -> "wild"
        [] s = "scatter" -> "scatter"
        [] s = "nft_character" -> "nft_premium"
        [] OTHER -> "regular" ]

InitialWeights ==
  [ s \in SymbolIdSet |->
      CASE s = "diamond_hands" -> 45
        [] s = "crypto_wallet" -> 40
        [] s = "blockchain_block" -> 35
        [] s = "defi_token" -> 30
        [] s = "nft_collectible" -> 25
        [] s = "sol" -> 22
        [] s = "eth" -> 18
        [] s = "btc" -> 15
        [] s = "wild" -> 5
        [] s = "scatter" -> 3
        [] s = "nft_character" -> 8 ]

\* quarter units: { 3: 0.5, 4: 2.5, 5: 10, 6: 50 } is <<2, 10, 40, 200>>
PayoutRow(a, b, c, d) == [ n \in 3..6 |-> <<a, b, c, d>>[n - 2] ]

InitialPayoutTables ==
  [ s \in SymbolIdSet |->
      CASE s = "diamond_hands" -> PayoutRow(2, 10, 40, 200)
        [] s = "crypto_wallet" -> PayoutRow(3, 15, 60, 300)
        [] s = "blockchain_block" -> PayoutRow(4, 20, 80, 400)
        [] s = "defi_token" -> PayoutRow(6, 30, 120, 600)
        [] s = "nft_collectible" -> PayoutRow(8, 40, 160, 800)
        [] s = "sol" -> PayoutRow(12, 60, 240, 1200)
        [] s = "eth" -> PayoutRow(16, 80, 320, 1600)
        [] s = "btc" -> PayoutRow(20, 100, 400, 2000)
        [] s = "nft_character" -> PayoutRow(30, 150, 600, 3000)
        [] s = "wild" -> PayoutRow(0, 0, 0, 0)
        [] s = "scatter" -> PayoutRow(0, 0, 0, 0) ]

WildSubstitutes ==
  { "diamond_hands", "crypto_wallet", "blockchain_block", "defi_token",
    "nft_collectible", "sol", "eth", "btc", "nft_character" }

WildDoesNotSubstitute == { "scatter" }

SpecialBehaviorType ==
  [ s \in {"wild", "scatter", "nft_character"} |->
      CASE s = "wild" -> "substitution"
        [] s = "scatter" -> "bonus_trigger"
        [] OTHER -> "premium_bonus" ]

(***************************************************************************)
(* CascadingReelsService constants.                                        *)
(***************************************************************************)
cascadeMultipliers == << 1, 2, 3, 5, 8, 12, 20 >>

maxCascades == 6

InitialVrfOffsetAtHeights == 6 * 3

InitialVrfOffset == 256

PopulateStartBit == 18

VARIABLES
  weights,            \* this.symbols[id].weight
  payoutTables,       \* this.payoutTables
  vrfNumber,          \* the random value of the spin in progress
  betAmount,          \* the bet of the spin in progress
  pc,                 \* position of the caller / of processCascadingReels
  run,                \* 1 for the first run of the spin, 2 for its repetition
  reelConfig,         \* result of generateReelConfiguration
  initialReelResult,  \* the grid handed to processCascadingReels
  cascadeResults,     \* local of processCascadingReels
  currentReels,       \* local of processCascadingReels
  vrfOffset,          \* local of processCascadingReels
  cascadeLevel,       \* local of processCascadingReels
  totalWinnings,      \* local of processCascadingReels
  currentWins,        \* local of processCascadingReels
  result,             \* the object returned by processCascadingReels
  reads,              \* log of the bit ranges read by extractBits in this run
  steps,              \* log of the removal/drop/refill calls of this run
  evals,              \* log of the grids evaluated by processCascadingReels
  firstRun,           \* outputs of run 1, kept for comparison with run 2
  adminPlan,          \* the administrative calls the operator makes, in order
  adminDone,          \* how many of them have been made
  call,               \* the last catalog or decoder call and what it returned
  callerObject,       \* the newPayouts object of the last update, as its caller holds it
  aliased,            \* the symbol whose stored table is that same object, or Null
  vrfString,          \* the characters of the random value, where a caller sends text
  request,            \* the body of the POST /spin request being served
  response,           \* the response sent for it
  callerReels,        \* the grid a caller holds and hands to a cascade step
  suspended           \* the variables of a second spin in progress on the same engine

vars ==
  << weights, payoutTables, vrfNumber, betAmount, pc, run, reelConfig,
     initialReelResult, cascadeResults, currentReels, vrfOffset,
     cascadeLevel, totalWinnings, currentWins, result, reads, steps,
     evals, firstRun, adminPlan, adminDone, call, callerObject, aliased,
     vrfString, request, response, callerReels, suspended >>


(***************************************************************************)
(* SymbolConfigurationService operations.                                  *)
(***************************************************************************)
getSymbolPayout(symbolId, count) ==
  IF symbolId \notin DOMAIN payoutTables
    THEN 0
    ELSE IF count \notin DOMAIN payoutTables[symbolId]
      THEN 0
      ELSE payoutTables[symbolId][count]

canSubstituteNoExclusion(wildSymbol, targetSymbol) ==
  IF wildSymbol \notin DOMAIN SpecialBehaviorType
    THEN FALSE
    ELSE IF SpecialBehaviorType[wildSymbol] # "substitution"
      THEN FALSE
      ELSE targetSymbol \in WildSubstitutes \cup WildDoesNotSubstitute

canSubstitute(wildSymbol, targetSymbol) ==
  IF wildSymbol \notin DOMAIN SpecialBehaviorType
    THEN FALSE
    ELSE IF SpecialBehaviorType[wildSymbol] # "substitution"
      THEN FALSE
      ELSE /\ targetSymbol \in WildSubstitutes
           /\ targetSymbol \notin WildDoesNotSubstitute

RECURSIVE WeightedFrom(_, _, _)
WeightedFrom(k, includeSpecial, excludeSymbols) ==
  IF k > Len(SymbolIds)
    THEN << >>
    ELSE LET id == SymbolIds[k]
             skip == \/ id \in excludeSymbols
                     \/ (~includeSpecial /\ SymbolType[id] # "regular")
             own == IF skip THEN << >> ELSE [ i \in 1..weights[id] |-> id ]
         IN  own \o WeightedFrom(k + 1, includeSpecial, excludeSymbols)

createWeightedSymbolArrayNoExclude(includeSpecial, excludeSymbols) ==
  WeightedFrom(1, includeSpecial, {})

createWeightedSymbolArray(includeSpecial, excludeSymbols) ==
  WeightedFrom(1, includeSpecial, excludeSymbols)

(***************************************************************************)
(* SlotEngineService: bit extraction.                                      *)
(***************************************************************************)
RECURSIVE Pow2(_)
Pow2(n) == IF n = 0 THEN 1 ELSE 2 * Pow2(n - 1)

\* bit k (0 is the least significant) of BigInt(vrfNumber); 0 past the top
BitAt(digits, k) ==
  LET d == k \div 4
  IN  IF d >= Len(digits)
        THEN 0
        ELSE (digits[Len(digits) - d] \div Pow2(k % 4)) % 2

RECURSIVE BitsValue(_, _, _)
BitsValue(digits, startBit, bitCount) ==
  IF bitCount = 0
    THEN 0
    ELSE BitAt(digits, startBit) + 2 * BitsValue(digits, startBit + 1, bitCount - 1)

extractBitsNoShift(vrf, startBit, bitCount) == BitsValue(vrf, 0, bitCount)

\* Number((BigInt(vrfNumber) >> BigInt(startBit)) & ((1n << BigInt(bitCount)) - 1n))
extractBits(vrf, startBit, bitCount) == BitsValue(vrf, startBit, bitCount)

\* weightedSymbols[symbolBits % weightedSymbols.length]
SelectSymbol(weightedSymbols, symbolBits) ==
  IF Len(weightedSymbols) = 0
    THEN Undefined
    ELSE weightedSymbols[(symbolBits % Len(weightedSymbols)) + 1]

\* JSON.parse(JSON.stringify(reels)): undefined array entries become null
JsonCopy(reels) ==
  [ r \in DOMAIN reels |->
      [ reels[r] EXCEPT !.symbols =
          [ i \in DOMAIN reels[r].symbols |->
              IF reels[r].symbols[i] = Undefined THEN Null
              ELSE reels[r].symbols[i] ] \o << >> ] ] \o << >>

(***************************************************************************)
(* SlotEngineService: reel generation.                                     *)
(***************************************************************************)
ReelHeightNoModulo(vrf, i) == 2 + extractBits(vrf, 3 * i, 3)

ReelHeight(vrf, i) == 2 + (extractBits(vrf, 3 * i, 3) % 6)

generateReelConfiguration(vrf) ==
  [ k \in 1..6 |->
      [ reelIndex |-> k - 1, height |-> ReelHeight(vrf, k - 1), symbols |-> << >> ] ]
  \o << >>

HeightReads ==
  [ k \in 1..6 |-> [ at |-> 3 * (k - 1), width |-> 3, phase |-> "height", level |-> 0 ] ]
  \o << >>

\* the inner loop of populateReels for one reel, from bit vrfIndex
RECURSIVE PopulateReel(_, _, _, _, _)
PopulateReel(vrf, weightedSymbols, height, pos, vrfIndex) ==
  IF pos >= height
    THEN << >>
    ELSE << SelectSymbol(weightedSymbols, extractBits(vrf, vrfIndex, 8)) >>
         \o PopulateReel(vrf, weightedSymbols, height, pos + 1, vrfIndex + 8)

\* number of iterations of the inner loop: for (pos = 0; pos < height; pos++)
PopulateCount(height) == IF height > 0 THEN height ELSE 0

RECURSIVE PopulateFrom(_, _, _, _, _)
PopulateFrom(vrf, weightedSymbols, reels, k, vrfIndex) ==
  IF k > Len(reels)
    THEN << >>
    ELSE << [ reels[k] EXCEPT !.symbols =
                @ \o PopulateReel(vrf, weightedSymbols, reels[k].height, 0, vrfIndex) ] >>
         \o PopulateFrom(vrf, weightedSymbols, reels, k + 1,
                         vrfIndex + 8 * PopulateCount(reels[k].height))

populateReels(vrf, config) ==
  PopulateFrom(vrf, createWeightedSymbolArray(TRUE, {}), JsonCopy(config), 1,
               PopulateStartBit)

RECURSIVE SumHeights(_, _)
SumHeights(reels, k) ==
  IF k > Len(reels) THEN 0 ELSE PopulateCount(reels[k].height) + SumHeights(reels, k + 1)

PopulateReads(config) ==
  [ j \in 1..SumHeights(config, 1) |->
      [ at |-> PopulateStartBit + 8 * (j - 1), width |-> 8, phase |-> "populate",
        level |-> 0 ] ]
  \o << >>

(***************************************************************************)
(* SlotEngineService: win evaluation.                                      *)
(***************************************************************************)
\* all cells in reel-then-position order
RECURSIVE FlattenFrom(_, _)
FlattenFrom(reels, k) ==
  IF k > Len(reels) THEN << >> ELSE reels[k].symbols \o FlattenFrom(reels, k + 1)

RECURSIVE Dedup(_, _)
Dedup(cells, seen) ==
  IF cells = << >>
    THEN << >>
    ELSE IF Head(cells) \in seen
      THEN Dedup(Tail(cells), seen)
      ELSE << Head(cells) >> \o Dedup(Tail(cells), seen \cup { Head(cells) })

\* Array.from(new Set(...)): first occurrences, in insertion order
getUniqueSymbols(reelResult) == Dedup(FlattenFrom(reelResult, 1), {})

CellMatches(symbol, targetSymbol) ==
  \/ symbol = targetSymbol
  \/ (canSubstitute("wild", targetSymbol) /\ symbol = "wild")

FirstMatchLowest(symbols, targetSymbol) ==
  LET hits == { i \in DOMAIN symbols : CellMatches(symbols[i], targetSymbol) }
  IN  IF hits = {} THEN 0 ELSE CHOOSE i \in hits : \A j \in hits : i >= j

\* index (1-based) of the first matching cell of a reel, 0 when none
FirstMatch(symbols, targetSymbol) ==
  LET hits == { i \in DOMAIN symbols : CellMatches(symbols[i], targetSymbol) }
  IN  IF hits = {} THEN 0 ELSE CHOOSE i \in hits : \A j \in hits : i <= j

RECURSIVE FindFrom(_, _, _)
FindFrom(reelResult, targetSymbol, k) ==
  IF k > Len(reelResult)
    THEN << >>
    ELSE LET m == FirstMatch(reelResult[k].symbols, targetSymbol)
         IN  IF m = 0
               THEN << >>
               ELSE << [ reel |-> k - 1, position |-> m - 1,
                         symbol |-> reelResult[k].symbols[m] ] >>
                    \o FindFrom(reelResult, targetSymbol, k + 1)

findSymbolCombination(reelResult, targetSymbol) == FindFrom(reelResult, targetSymbol, 1)

maxWaysToWin == 117649

RECURSIVE HeightProduct(_, _)
HeightProduct(reelResult, k) ==
  IF k > Len(reelResult) THEN 1 ELSE reelResult[k].height * HeightProduct(reelResult, k + 1)

calculateWaysToWinUncapped(reelResult) == HeightProduct(reelResult, 1)

calculateWaysToWin(reelResult) ==
  LET w == HeightProduct(reelResult, 1)
  IN  IF w < maxWaysToWin THEN w ELSE maxWaysToWin

RECURSIVE WaysFrom(_, _, _, _)
WaysFrom(reelResult, symbol, combinationLength, k) ==
  IF k > combinationLength
    THEN 1
    ELSE Cardinality({ i \in DOMAIN reelResult[k].symbols :
                         reelResult[k].symbols[i] = symbol
                         \/ reelResult[k].symbols[i] = "wild" })
         * WaysFrom(reelResult, symbol, combinationLength, k + 1)

countWaysForCombination(reelResult, symbol, combinationLength) ==
  WaysFrom(reelResult, symbol, combinationLength, 1)

calculateSymbolPayout(symbol, length) == getSymbolPayout(symbol, length)

RECURSIVE CombinationsFromUnfiltered(_, _)
CombinationsFromUnfiltered(reelResult, symbolsOnReels) ==
  IF symbolsOnReels = << >>
    THEN << >>
    ELSE LET symbol == Head(symbolsOnReels)
             rest == CombinationsFromUnfiltered(reelResult, Tail(symbolsOnReels))
             combination == findSymbolCombination(reelResult, symbol)
             payout == calculateSymbolPayout(symbol, Len(combination))
         IN  IF symbol = "scatter"
               THEN rest
               ELSE IF Len(combination) >= 3
                 THEN << [ symbol |-> symbol,
                           length |-> Len(combination),
                           positions |-> combination,
                           basePayout |-> payout,
                           waysCount |-> countWaysForCombination(
                                           reelResult, symbol, Len(combination)) ] >>
                      \o rest
                 ELSE rest

RECURSIVE CombinationsFrom(_, _)
CombinationsFrom(reelResult, symbolsOnReels) ==
  IF symbolsOnReels = << >>
    THEN << >>
    ELSE LET symbol == Head(symbolsOnReels)
             rest == CombinationsFrom(reelResult, Tail(symbolsOnReels))
             combination == findSymbolCombination(reelResult, symbol)
             payout == calculateSymbolPayout(symbol, Len(combination))
         IN  IF symbol = "scatter"
               THEN rest
               ELSE IF Len(combination) >= 3 /\ payout > 0
                 THEN << [ symbol |-> symbol,
                           length |-> Len(combination),
                           positions |-> combination,
                           basePayout |-> payout,
                           waysCount |-> countWaysForCombination(
                                           reelResult, symbol, Len(combination)) ] >>
                      \o rest
                 ELSE rest

calculateWinningCombinations(reelResult) ==
  LET combos == CombinationsFrom(reelResult, getUniqueSymbols(reelResult))
  IN  [ combinations |-> combos,
        totalWaysToWin |-> calculateWaysToWin(reelResult),
        hasWins |-> Len(combos) > 0 ]

RECURSIVE TotalPayoutTimesWays(_, _, _)
TotalPayoutTimesWays(winningCombinations, bet, k) ==
  IF k > Len(winningCombinations)
    THEN 0
    ELSE winningCombinations[k].basePayout * bet * winningCombinations[k].waysCount
         + TotalPayoutTimesWays(winningCombinations, bet, k + 1)

RECURSIVE TotalPayoutFrom(_, _, _)
TotalPayoutFrom(winningCombinations, bet, k) ==
  IF k > Len(winningCombinations)
    THEN 0
    ELSE winningCombinations[k].basePayout * bet
         + TotalPayoutFrom(winningCombinations, bet, k + 1)

calculateTotalPayout(winningCombinations, bet) ==
  TotalPayoutFrom(winningCombinations, bet, 1)

(***************************************************************************)
(* CascadingReelsService: the steps of one cascade.                        *)
(***************************************************************************)
symbolsToRemoveFirstOnly(winningCombinations) ==
  IF winningCombinations = << >>
    THEN { }
    ELSE { << winningCombinations[1].positions[p].reel,
              winningCombinations[1].positions[p].position >> :
             p \in DOMAIN winningCombinations[1].positions }

\* the Set of "reel-position" keys collected from the combinations
symbolsToRemove(winningCombinations) ==
  UNION { { << winningCombinations[c].positions[p].reel,
               winningCombinations[c].positions[p].position >> :
              p \in DOMAIN winningCombinations[c].positions } :
          c \in DOMAIN winningCombinations }

removeWinningSymbols(reelResult, winningCombinations) ==
  LET modifiedReels == JsonCopy(reelResult)
      keys == symbolsToRemove(winningCombinations)
  IN  [ r \in DOMAIN modifiedReels |->
          [ modifiedReels[r] EXCEPT !.symbols =
              [ i \in DOMAIN modifiedReels[r].symbols |->
                  IF << r - 1, i - 1 >> \in keys
                    THEN Null
                    ELSE modifiedReels[r].symbols[i] ] \o << >> ] ] \o << >>

DropReelToTop(symbols, height) ==
  LET remainingSymbols == SelectSeq(symbols, LAMBDA x : x # Null)
      n == Len(remainingSymbols)
  IN  [ j \in 1..height |-> IF j <= n THEN remainingSymbols[j] ELSE Null ] \o << >>

\* newSymbols[height - 1 - i] for i in 0..height-1, written 1-based
DropReel(symbols, height) ==
  LET remainingSymbols == SelectSeq(symbols, LAMBDA x : x # Null)
      n == Len(remainingSymbols)
  IN  [ j \in 1..height |->
          LET i == height - j
          IN  IF i < n THEN remainingSymbols[n - i] ELSE Null ] \o << >>

dropSymbolsDown(reelResult) ==
  LET droppedReels == JsonCopy(reelResult)
  IN  [ r \in DOMAIN droppedReels |->
          [ droppedReels[r] EXCEPT !.symbols =
              DropReel(droppedReels[r].symbols,
                       IF droppedReels[r].height > 0 THEN droppedReels[r].height ELSE 0) ] ]
      \o << >>

\* the forEach over the cells of one reel in generateNewSymbols; the result
\* carries the refilled cells, the offset reached and the offsets read
RECURSIVE RefillReel(_, _, _, _, _)
RefillReel(vrf, weightedSymbols, symbols, i, currentOffset) ==
  IF i > Len(symbols)
    THEN [ symbols |-> << >>, offset |-> currentOffset, at |-> << >> ]
    ELSE IF symbols[i] = Null
      THEN LET rest == RefillReel(vrf, weightedSymbols, symbols, i + 1, currentOffset + 8)
           IN  [ symbols |-> << SelectSymbol(weightedSymbols,
                                             extractBits(vrf, currentOffset, 8)) >>
                             \o rest.symbols,
                 offset |-> rest.offset,
                 at |-> << currentOffset >> \o rest.at ]
      ELSE LET rest == RefillReel(vrf, weightedSymbols, symbols, i + 1, currentOffset)
           IN  [ symbols |-> << symbols[i] >> \o rest.symbols,
                 offset |-> rest.offset,
                 at |-> rest.at ]

RECURSIVE RefillFrom(_, _, _, _, _)
RefillFrom(vrf, weightedSymbols, reels, k, currentOffset) ==
  IF k > Len(reels)
    THEN [ reels |-> << >>, at |-> << >> ]
    ELSE LET one == RefillReel(vrf, weightedSymbols, reels[k].symbols, 1, currentOffset)
             rest == RefillFrom(vrf, weightedSymbols, reels, k + 1, one.offset)
         IN  [ reels |-> << [ reels[k] EXCEPT !.symbols = one.symbols ] >> \o rest.reels,
               at |-> one.at \o rest.at ]

generateNewSymbols(reelResult, vrf, offset) ==
  RefillFrom(vrf, createWeightedSymbolArray(TRUE, {}), JsonCopy(reelResult), 1,
             offset).reels

\* the offsets generateNewSymbols hands to extractBits, in call order
RefillReads(reelResult, vrf, offset) ==
  RefillFrom(vrf, createWeightedSymbolArray(TRUE, {}), JsonCopy(reelResult), 1,
             offset).at

calculateVrfBitsNeeded(reelResult) ==
  Len(SelectSeq(FlattenFrom(reelResult, 1), LAMBDA x : x = Null)) * 8

getCascadeMultiplierShifted(level) ==
  cascadeMultipliers[IF level < 1 THEN 1
                     ELSE IF level < Len(cascadeMultipliers) THEN level
                     ELSE Len(cascadeMultipliers)]

getCascadeMultiplier(level) ==
  cascadeMultipliers[(IF level < Len(cascadeMultipliers) - 1
                        THEN level ELSE Len(cascadeMultipliers) - 1) + 1]

(***************************************************************************)
(* Inputs of the checked runs.                                             *)
(***************************************************************************)
RECURSIVE Repeat(_, _)
Repeat(digits, n) == IF n = 0 THEN << >> ELSE digits \o Repeat(digits, n - 1)

\* '0x1234567890abcdef' and '0xABCDEF1234567890' four times each, 0x1 and
\* the all-ones value padded to 64 digits, and 0x2DB6D (six reels of height 7)
TestVrfs ==
  { Repeat(<< 1, 2, 3, 4, 5, 6, 7, 8, 9, 0, 10, 11, 12, 13, 14, 15 >>, 4),
    Repeat(<< 10, 11, 12, 13, 14, 15, 1, 2, 3, 4, 5, 6, 7, 8, 9, 0 >>, 4),
    Repeat(<< 0 >>, 63) \o << 1 >>,
    Repeat(<< 15 >>, 64),
    Repeat(<< 0 >>, 59) \o << 2, 13, 11, 6, 13 >> }

\* a fixed pseudo-random digit stream per seed, to spread the checked
\* random values over heights, grids and refills
DigitStep(x) == (x * 75 + 74) % 65537

RECURSIVE VrfDigits(_, _)
VrfDigits(x, n) ==
  IF n = 0 THEN << >> ELSE << (x \div 16) % 16 >> \o VrfDigits(DigitStep(x), n - 1)

VrfInputs == TestVrfs \cup { VrfDigits(seed, VrfLen) : seed \in 1..MaxSeed }

BetAmounts == { 1, 100 }

TestReel(h, syms) == [ height |-> h, symbols |-> syms ]

\* the grids of the cascade tests and the wild grid of the evaluator tests
TestGrids ==
  { << TestReel(4, << "btc", "btc", "eth", "sol" >>),
       TestReel(4, << "btc", "btc", "eth", "defi_token" >>),
       TestReel(4, << "btc", "btc", "eth", "nft_common" >>),
       TestReel(4, << "diamond_hands", "wild", "blockchain", "wallet" >>),
       TestReel(4, << "nft_common", "defi_token", "blockchain", "wallet" >>),
       TestReel(4, << "wallet", "diamond_hands", "scatter", "btc" >>) >>,
    << TestReel(3, << "diamond_hands", "wallet", "blockchain" >>),
       TestReel(3, << "defi_token", "nft_common", "sol" >>),
       TestReel(3, << "eth", "btc", "scatter" >>),
       TestReel(3, << "wallet", "diamond_hands", "blockchain" >>),
       TestReel(3, << "nft_common", "defi_token", "sol" >>),
       TestReel(3, << "eth", "btc", "scatter" >>) >>,
    << TestReel(2, << "btc", "eth" >>),
       TestReel(2, << "wild", "defi_token" >>),
       TestReel(2, << "btc", "blockchain" >>),
       TestReel(2, << "diamond_hands", "eth" >>),
       TestReel(2, << "nft_common", "defi_token" >>),
       TestReel(2, << "wallet", "diamond_hands" >>) >> }

(***************************************************************************)
(* State machine: a caller runs the spin (generateReelConfiguration,       *)
(* populateReels, processCascadingReels) or hands a grid of its own to     *)
(* processCascadingReels, then repeats the same call once.                 *)
(***************************************************************************)
NoResult == [ returned |-> FALSE ]

NoWins == [ combinations |-> << >>, totalWaysToWin |-> 0, hasWins |-> FALSE ]

NoFirstRun == [ done |-> FALSE ]

NoCall == [ fn |-> "none" ]

NoObject == << >>

NoRequest == [ received |-> FALSE ]

NoResponse == [ sent |-> FALSE ]

NoSpin == [ started |-> FALSE ]

Init ==
  /\ weights = InitialWeights
  /\ payoutTables = InitialPayoutTables
  /\ vrfNumber \in VrfInputs
  /\ betAmount \in BetAmounts
  /\ pc = "idle"
  /\ run = 1
  /\ reelConfig = << >>
  /\ initialReelResult = << >>
  /\ cascadeResults = << >>
  /\ currentReels = << >>
  /\ vrfOffset = 0
  /\ cascadeLevel = 0
  /\ totalWinnings = 0
  /\ currentWins = NoWins
  /\ result = NoResult
  /\ reads = << >>
  /\ steps = << >>
  /\ evals = << >>
  /\ firstRun = NoFirstRun
  /\ adminPlan = << >>
  /\ adminDone = 0
  /\ call = NoCall
  /\ callerObject = NoObject
  /\ aliased = Null
  /\ vrfString = Null
  /\ request = NoRequest
  /\ response = NoResponse
  /\ callerReels = << >>
  /\ suspended = NoSpin

catalogVars == << weights, payoutTables >>

adminVars == << adminPlan, adminDone, call, callerObject, aliased >>

logVars == << reads, steps, evals >>

requestVars == << vrfString, request, response >>

otherVars == << callerReels, suspended >>

inputVars == << vrfNumber, betAmount, requestVars, otherVars >>

localVars ==
  << cascadeResults, currentReels, vrfOffset, cascadeLevel, totalWinnings,
     currentWins >>

\* the caller's generateReelConfiguration(vrfNumber)
GenerateReels ==
  /\ pc = "idle"
  /\ firstRun.done => firstRun.reelConfig # << >>
  /\ reelConfig' = generateReelConfiguration(vrfNumber)
  /\ reads' = reads \o HeightReads
  /\ pc' = "configured"
  /\ UNCHANGED << catalogVars, adminVars, inputVars, localVars, run, initialReelResult,
                  result, steps, evals, firstRun >>

WrittenInPlace(callersObject, written) == written

\* JSON.parse(JSON.stringify(x)) gives the callee an object of its own:
\* the caller's object is as it was, whatever the callee wrote
AfterDeepCopy(callersObject, written) == callersObject

\* the caller's populateReels(vrfNumber, reelConfig)
PopulateReels ==
  /\ pc = "configured"
  /\ initialReelResult' = populateReels(vrfNumber, reelConfig)
  /\ reelConfig' = AfterDeepCopy(reelConfig, populateReels(vrfNumber, reelConfig))
  /\ reads' = reads \o PopulateReads(reelConfig)
  /\ pc' = "populated"
  /\ UNCHANGED << catalogVars, adminVars, inputVars, localVars, run, result,
                  steps, evals, firstRun >>

\* a caller that brings its own grid, as the unit tests do
UseTestGrid ==
  /\ pc = "idle"
  /\ \E g \in TestGrids :
       /\ firstRun.done => (firstRun.reelConfig = << >> /\ firstRun.populatedReels = g)
       /\ initialReelResult' = g
  /\ pc' = "populated"
  /\ UNCHANGED << catalogVars, adminVars, inputVars, localVars, run, reelConfig, result,
                  logVars, firstRun >>

(***************************************************************************)
(* processCascadingReels, one action per straight-line stretch of code.    *)
(***************************************************************************)
CascadeRoundLevelTotal(level, reels, wins, multiplier, payout, total) ==
  [ level |-> level,
    reelState |-> JsonCopy(reels),
    winningCombinations |-> wins.combinations,
    multiplier |-> multiplier,
    levelPayout |-> payout,
    totalPayout |-> payout ]

\* the record pushed on cascadeResults
CascadeRound(level, reels, wins, multiplier, payout, total) ==
  [ level |-> level,
    reelState |-> JsonCopy(reels),
    winningCombinations |-> wins.combinations,
    multiplier |-> multiplier,
    levelPayout |-> payout,
    totalPayout |-> total ]

\* multipliedPayout = basePayout * cascadeMultiplier
MultipliedPayout(wins, bet, multiplier) ==
  calculateTotalPayout(wins.combinations, bet) * multiplier

InitialCascadeLevelStale == cascadeLevel

\* let cascadeLevel = 0
InitialCascadeLevel == 0

InitialRoundAlways(wins) == TRUE

\* if (initialWins.hasWins): the level-0 round is pushed
InitialRoundRecorded(wins) == wins.hasWins

CascadeRoundAlways(wins) == TRUE

\* if (cascadeWins.hasWins): a cascade round is pushed, else break
CascadeRoundRecorded(wins) == wins.hasWins

LoopConditionOffByOne(wins, level) == wins.hasWins /\ level <= maxCascades

\* while (currentWins.hasWins && cascadeLevel < this.maxCascades)
LoopCondition(wins, level) == wins.hasWins /\ level < maxCascades

\* vrfOffset += this.calculateVrfBitsNeeded(currentReels), after the refill
AdvanceOffset(offset, refilledReels) == offset + calculateVrfBitsNeeded(refilledReels)

\* entry of processCascadingReels up to the while loop
ProcessInitial ==
  /\ pc = "populated"
  /\ LET copy == JsonCopy(initialReelResult)
         initialWins == calculateWinningCombinations(copy)
         initialPayout == calculateTotalPayout(initialWins.combinations, betAmount)
     IN  /\ currentReels' = copy
         /\ vrfOffset' = InitialVrfOffset
         /\ cascadeLevel' = InitialCascadeLevel
         /\ currentWins' = initialWins
         /\ evals' = evals \o << [ level |-> 0, grid |-> copy,
                                   combinations |-> initialWins.combinations,
                                   hasWins |-> initialWins.hasWins ] >>
         /\ IF InitialRoundRecorded(initialWins)
              THEN /\ totalWinnings' = 0 + initialPayout
                   /\ cascadeResults' =
                        << CascadeRound(0, copy, initialWins, cascadeMultipliers[1],
                                        initialPayout, 0 + initialPayout) >>
                   /\ pc' = "loop"
              ELSE /\ totalWinnings' = 0
                   /\ cascadeResults' = << >>
                   /\ pc' = "return"
  /\ UNCHANGED << catalogVars, adminVars, inputVars, run, reelConfig, initialReelResult,
                  result, reads, steps, firstRun >>

\* one pass through the body of the while loop
CascadeIteration ==
  /\ pc = "loop"
  /\ LoopCondition(currentWins, cascadeLevel)
  /\ LET level == cascadeLevel + 1
         removed == removeWinningSymbols(currentReels, currentWins.combinations)
         dropped == dropSymbolsDown(removed)
         refilled == generateNewSymbols(dropped, vrfNumber, vrfOffset)
         at == RefillReads(dropped, vrfNumber, vrfOffset)
         cascadeWins == calculateWinningCombinations(refilled)
         cascadeMultiplier == getCascadeMultiplier(level)
         multipliedPayout == MultipliedPayout(cascadeWins, betAmount, cascadeMultiplier)
     IN  /\ cascadeLevel' = level
         /\ currentReels' = refilled
         /\ vrfOffset' = AdvanceOffset(vrfOffset, refilled)
         /\ reads' = reads \o [ j \in 1..Len(at) |->
                                  [ at |-> at[j], width |-> 8, phase |-> "refill",
                                    level |-> level ] ]
         /\ steps' = steps \o << "remove", "drop", "refill" >>
         /\ evals' = evals \o << [ level |-> level, grid |-> refilled,
                                   combinations |-> cascadeWins.combinations,
                                   hasWins |-> cascadeWins.hasWins ] >>
         /\ IF CascadeRoundRecorded(cascadeWins)
              THEN /\ totalWinnings' = totalWinnings + multipliedPayout
                   /\ cascadeResults' =
                        Append(cascadeResults,
                               CascadeRound(level, refilled, cascadeWins, cascadeMultiplier,
                                            multipliedPayout,
                                            totalWinnings + multipliedPayout))
                   /\ currentWins' = cascadeWins
                   /\ pc' = "loop"
              ELSE /\ UNCHANGED << totalWinnings, cascadeResults, currentWins >>
                   /\ pc' = "return"
  /\ UNCHANGED << catalogVars, adminVars, inputVars, run, reelConfig, initialReelResult,
                  result, firstRun >>

\* the while condition fails
LoopExit ==
  /\ pc = "loop"
  /\ ~LoopCondition(currentWins, cascadeLevel)
  /\ pc' = "return"
  /\ UNCHANGED << catalogVars, adminVars, inputVars, localVars, run, reelConfig,
                  initialReelResult, result, logVars, firstRun >>

MaxMultiplier(rounds) ==
  IF Len(rounds) > 0
    THEN CHOOSE m \in { rounds[i].multiplier : i \in DOMAIN rounds } :
           \A i \in DOMAIN rounds : rounds[i].multiplier <= m
    ELSE 1

\* the return statement
Return ==
  /\ pc = "return"
  /\ result' = [ returned |-> TRUE,
                 cascades |-> cascadeResults,
                 finalReelState |-> currentReels,
                 totalCascades |-> Len(cascadeResults),
                 totalWinnings |-> totalWinnings,
                 maxMultiplierReached |-> MaxMultiplier(cascadeResults) ]
  /\ pc' = "done"
  /\ UNCHANGED << catalogVars, adminVars, inputVars, localVars, run, reelConfig,
                  initialReelResult, logVars, firstRun >>

\* the caller keeps the outputs and runs the identical call again
Rerun ==
  /\ pc = "done"
  /\ run = 1
  /\ firstRun' = [ done |-> TRUE,
                   reelConfig |-> reelConfig,
                   populatedReels |-> initialReelResult,
                   cascadeResult |-> result,
                   reads |-> reads ]
  /\ run' = 2
  /\ pc' = "idle"
  /\ reelConfig' = << >>
  /\ initialReelResult' = << >>
  /\ result' = NoResult
  /\ reads' = << >>
  /\ steps' = << >>
  /\ evals' = << >>
  /\ UNCHANGED << catalogVars, adminVars, inputVars, localVars >>

Next ==
  \/ GenerateReels
  \/ PopulateReels
  \/ UseTestGrid
  \/ ProcessInitial
  \/ CascadeIteration
  \/ LoopExit
  \/ Return
  \/ Rerun

Spec == Init /\ [][Next]_vars

(***************************************************************************)
(* Catalog administration.  An operator works through a list of            *)
(* updateSymbolWeight and updateSymbolPayouts calls while callers query    *)
(* the catalog and run spins between the calls.  A JavaScript value inside *)
(* a caller's object is a pair of its typeof and its number; the catalog   *)
(* keeps the numbers.                                                      *)
(***************************************************************************)
Num(n) == << "number", n >>

NotANumber == << "string", 0 >>

TypeofNumber(v) == v[1] = "number"

\* if (!this.symbols[symbolId] || newWeight < 0) return false
updateSymbolWeightRejects(symbolId, newWeight) ==
  \/ symbolId \notin DOMAIN weights
  \/ newWeight < 0

requiredKeys == { 3, 4, 5, 6 }

\* newPayouts.hasOwnProperty(key) && typeof newPayouts[key] === 'number'
HasRequiredKeys(newPayouts) ==
  \A key \in requiredKeys :
    key \in DOMAIN newPayouts /\ TypeofNumber(newPayouts[key])

updateSymbolPayoutsRejects(symbolId, newPayouts) ==
  \/ symbolId \notin DOMAIN weights
  \/ symbolId \notin DOMAIN payoutTables
  \/ ~HasRequiredKeys(newPayouts)

\* { ...newPayouts }: every own key of the object, with its value
SpreadCopy(object) == [ k \in DOMAIN object |-> object[k][2] ]

AssignmentIsCallersObject == TRUE

\* { ...newPayouts } is a new object, distinct from the caller's
SpreadIsCallersObject == FALSE

callerVars == << run, reelConfig, initialReelResult, result, firstRun >>

UpdateSymbolWeight ==
  /\ pc = "idle"
  /\ adminDone < Len(adminPlan)
  /\ adminPlan[adminDone + 1].fn = "updateSymbolWeight"
  /\ LET symbolId == adminPlan[adminDone + 1].symbolId
         newWeight == adminPlan[adminDone + 1].newWeight
         rejected == updateSymbolWeightRejects(symbolId, newWeight)
     IN  /\ weights' = IF rejected THEN weights
                       ELSE [ weights EXCEPT ![symbolId] = newWeight ]
         /\ call' = [ fn |-> "updateSymbolWeight", symbolId |-> symbolId,
                      newWeight |-> newWeight, value |-> ~rejected ]
  /\ adminDone' = adminDone + 1
  /\ pc' = "called"
  /\ UNCHANGED << payoutTables, adminPlan, callerObject, aliased, inputVars,
                  localVars, logVars, callerVars >>

UpdateSymbolPayouts ==
  /\ pc = "idle"
  /\ adminDone < Len(adminPlan)
  /\ adminPlan[adminDone + 1].fn = "updateSymbolPayouts"
  /\ LET symbolId == adminPlan[adminDone + 1].symbolId
         newPayouts == adminPlan[adminDone + 1].newPayouts
         rejected == updateSymbolPayoutsRejects(symbolId, newPayouts)
     IN  /\ payoutTables' = IF rejected THEN payoutTables
                            ELSE [ payoutTables EXCEPT ![symbolId] = SpreadCopy(newPayouts) ]
         /\ aliased' = IF ~rejected /\ SpreadIsCallersObject THEN symbolId ELSE Null
         /\ callerObject' = newPayouts
         /\ call' = [ fn |-> "updateSymbolPayouts", symbolId |-> symbolId,
                      newPayouts |-> newPayouts, value |-> ~rejected ]
  /\ adminDone' = adminDone + 1
  /\ pc' = "called"
  /\ UNCHANGED << weights, adminPlan, inputVars, localVars, logVars, callerVars >>

\* what the caller writes into its own object after the call
CallerWrite == Num(28)

\* the caller changes entry 3 of the object it passed to updateSymbolPayouts
MutateCallerObject ==
  /\ pc = "called"
  /\ call.fn = "updateSymbolPayouts"
  /\ 3 \in DOMAIN callerObject
  /\ callerObject[3] # CallerWrite
  /\ callerObject' = [ callerObject EXCEPT ![3] = CallerWrite ]
  /\ payoutTables' = IF aliased = Null THEN payoutTables
                     ELSE [ payoutTables EXCEPT ![aliased] = SpreadCopy(callerObject') ]
  /\ UNCHANGED << weights, adminPlan, adminDone, call, aliased, inputVars,
                  localVars, logVars, callerVars, pc >>

UnknownId == "nonexistent"

PayoutQueryIds == { "btc", "eth", "wild", "scatter", UnknownId }

PayoutQueryCounts == 2..7

GetSymbolPayout ==
  /\ pc = "idle"
  /\ \E symbolId \in PayoutQueryIds, count \in PayoutQueryCounts :
       call' = [ fn |-> "getSymbolPayout", symbolId |-> symbolId, count |-> count,
                 value |-> getSymbolPayout(symbolId, count) ]
  /\ pc' = "called"
  /\ UNCHANGED << catalogVars, adminPlan, adminDone, callerObject, aliased,
                  inputVars, localVars, logVars, callerVars >>

ExcludeOptions == { {}, { "btc" }, { "wild", "eth" } }

CreateWeightedSymbolArray ==
  /\ pc = "idle"
  /\ \E includeSpecial \in BOOLEAN, excludeSymbols \in ExcludeOptions :
       call' = [ fn |-> "createWeightedSymbolArray",
                 includeSpecial |-> includeSpecial,
                 excludeSymbols |-> excludeSymbols,
                 value |-> createWeightedSymbolArray(includeSpecial, excludeSymbols) ]
  /\ pc' = "called"
  /\ UNCHANGED << catalogVars, adminPlan, adminDone, callerObject, aliased,
                  inputVars, localVars, logVars, callerVars >>

CanSubstitute ==
  /\ pc = "idle"
  /\ \E wildSymbol \in { "wild", "scatter", "btc" },
        targetSymbol \in SymbolIdSet \cup { UnknownId } :
       call' = [ fn |-> "canSubstitute", wildSymbol |-> wildSymbol,
                 targetSymbol |-> targetSymbol,
                 value |-> canSubstitute(wildSymbol, targetSymbol) ]
  /\ pc' = "called"
  /\ UNCHANGED << catalogVars, adminPlan, adminDone, callerObject, aliased,
                  inputVars, localVars, logVars, callerVars >>

\* the caller has used the returned value and lets go of it and of its object
CallReturn ==
  /\ pc = "called"
  /\ pc' = "idle"
  /\ call' = NoCall
  /\ callerObject' = NoObject
  /\ aliased' = Null
  /\ UNCHANGED << catalogVars, adminPlan, adminDone, inputVars, localVars,
                  logVars, callerVars >>

WeightCall(symbolId, newWeight) ==
  [ fn |-> "updateSymbolWeight", symbolId |-> symbolId, newWeight |-> newWeight ]

PayoutCall(symbolId, newPayouts) ==
  [ fn |-> "updateSymbolPayouts", symbolId |-> symbolId, newPayouts |-> newPayouts ]

\* the weight updates of the unit tests, then every symbol set to weight 0
WeightPlan ==
  << WeightCall("btc", 20), WeightCall("btc", -5), WeightCall(UnknownId, 10) >>
  \o [ k \in 1..Len(SymbolIds) |-> WeightCall(SymbolIds[k], 0) ]

\* { 3: 10, 4: 50, 5: 200, 6: 1000 } in quarter units
TestPayouts == 3 :> Num(40) @@ 4 :> Num(200) @@ 5 :> Num(800) @@ 6 :> Num(4000)

MissingKeys == 3 :> Num(40) @@ 4 :> Num(200)

InvalidType == 3 :> Num(40) @@ 4 :> Num(200) @@ 5 :> Num(800) @@ 6 :> NotANumber

WildPayouts == 3 :> Num(4) @@ 4 :> Num(8) @@ 5 :> Num(12) @@ 6 :> Num(16)

ExtraKeys ==
  2 :> Num(4) @@ 3 :> Num(16) @@ 4 :> Num(80) @@ 5 :> Num(320) @@ 6 :> Num(1600)
  @@ 7 :> Num(6400)

\* { 3: -1000, 4: -50, 5: 2, 6: 4 } in quarter units
NegativePayouts == 3 :> Num(-4000) @@ 4 :> Num(-200) @@ 5 :> Num(8) @@ 6 :> Num(16)

\* the payout updates of the unit tests, an unknown id, a table for the wild,
\* a table with keys besides 3..6 and a table with negative entries
PayoutPlan ==
  << PayoutCall("btc", TestPayouts), PayoutCall("btc", MissingKeys),
     PayoutCall("btc", InvalidType), PayoutCall(UnknownId, TestPayouts),
     PayoutCall("wild", WildPayouts), PayoutCall("eth", ExtraKeys),
     PayoutCall("btc", NegativePayouts) >>

\* a value whose 12 cells all decode to 230, a wild of the initial pool
AllWildVrf == << 3 >> \o Repeat(<< 9, 11 >>, 11) \o << 9, 8, 0, 0, 0, 0 >>

CatalogVrfs == { AllWildVrf, VrfDigits(2, VrfLen) }

\* the grid of the symbol generation test
RefillTestGrid ==
  << TestReel(3, << Null, Null, "sol" >>), TestReel(3, << Null, "eth", "nft_common" >>) >>

RefillOffsets == { 0, 16, 256 }

\* the caller's generateNewSymbols(reels, vrfNumber, vrfOffset)
GenerateNewSymbols ==
  /\ pc = "idle"
  /\ callerReels # << >>
  /\ \E offset \in RefillOffsets :
       LET newReels == generateNewSymbols(callerReels, vrfNumber, offset)
       IN  /\ call' = [ fn |-> "generateNewSymbols", reelResult |-> callerReels,
                        vrfOffset |-> offset, value |-> newReels,
                        reads |-> RefillReads(callerReels, vrfNumber, offset) ]
           /\ callerReels' = AfterDeepCopy(callerReels, newReels)
  /\ pc' = "called"
  /\ UNCHANGED << catalogVars, adminPlan, adminDone, callerObject, aliased, vrfNumber,
                  betAmount, requestVars, suspended, localVars, logVars, callerVars >>

CatalogBets == { 0, 1 }

CatalogInit ==
  /\ weights = InitialWeights
  /\ payoutTables = InitialPayoutTables
  /\ vrfNumber \in CatalogVrfs
  /\ betAmount \in CatalogBets
  /\ pc = "idle"
  /\ run = 1
  /\ reelConfig = << >>
  /\ initialReelResult = << >>
  /\ cascadeResults = << >>
  /\ currentReels = << >>
  /\ vrfOffset = 0
  /\ cascadeLevel = 0
  /\ totalWinnings = 0
  /\ currentWins = NoWins
  /\ result = NoResult
  /\ reads = << >>
  /\ steps = << >>
  /\ evals = << >>
  /\ firstRun = NoFirstRun
  /\ (adminPlan = WeightPlan \/ adminPlan = PayoutPlan)
  /\ adminDone = 0
  /\ call = NoCall
  /\ callerObject = NoObject
  /\ aliased = Null
  /\ vrfString = Null
  /\ request = NoRequest
  /\ response = NoResponse
  /\ callerReels = RefillTestGrid
  /\ suspended = NoSpin

CatalogNext ==
  \/ UpdateSymbolWeight
  \/ UpdateSymbolPayouts
  \/ MutateCallerObject
  \/ GetSymbolPayout
  \/ CreateWeightedSymbolArray
  \/ CanSubstitute
  \/ GenerateNewSymbols
  \/ CallReturn
  \/ GenerateReels
  \/ PopulateReels
  \/ UseTestGrid
  \/ ProcessInitial
  \/ CascadeIteration
  \/ LoopExit
  \/ Return

CatalogSpec == CatalogInit /\ [][CatalogNext]_vars

(***************************************************************************)
(* The decoder on its own: a caller extracts bit fields from short random  *)
(* values, whose integer value fits a machine integer.                     *)
(***************************************************************************)
\* the hex digits of x, most significant first, as in '0x' + x.toString(16)
RECURSIVE ToHex(_)
ToHex(x) == IF x < 16 THEN << x >> ELSE ToHex(x \div 16) \o << x % 16 >>

DecoderInputs == { ToHex(x) : x \in 0..MaxValue }

ExtractBits ==
  /\ pc = "idle"
  /\ \E startBit \in 0..MaxStartBit, bitCount \in 1..MaxBitCount :
       call' = [ fn |-> "extractBits", startBit |-> startBit, bitCount |-> bitCount,
                 value |-> extractBits(vrfNumber, startBit, bitCount) ]
  /\ pc' = "called"
  /\ UNCHANGED << catalogVars, adminPlan, adminDone, callerObject, aliased,
                  inputVars, localVars, logVars, callerVars >>

DecoderInit ==
  /\ weights = InitialWeights
  /\ payoutTables = InitialPayoutTables
  /\ vrfNumber \in DecoderInputs
  /\ betAmount = 1
  /\ pc = "idle"
  /\ run = 1
  /\ reelConfig = << >>
  /\ initialReelResult = << >>
  /\ cascadeResults = << >>
  /\ currentReels = << >>
  /\ vrfOffset = 0
  /\ cascadeLevel = 0
  /\ totalWinnings = 0
  /\ currentWins = NoWins
  /\ result = NoResult
  /\ reads = << >>
  /\ steps = << >>
  /\ evals = << >>
  /\ firstRun = NoFirstRun
  /\ adminPlan = << >>
  /\ adminDone = 0
  /\ call = NoCall
  /\ callerObject = NoObject
  /\ aliased = Null
  /\ vrfString = Null
  /\ request = NoRequest
  /\ response = NoResponse
  /\ callerReels = << >>
  /\ suspended = NoSpin

DecoderNext ==
  \/ ExtractBits
  \/ CallReturn

DecoderSpec == DecoderInit /\ [][DecoderNext]_vars

(***************************************************************************)
(* Properties of the cascade loop.                                         *)
(***************************************************************************)
\* the rounds recorded by the call in progress, or returned by the last call
RecordedRounds ==
  IF result.returned
    THEN result.cascades
    ELSE IF pc \in { "loop", "return" } THEN cascadeResults ELSE << >>

RECURSIVE SumLevelPayout(_, _)
SumLevelPayout(rounds, n) ==
  IF n = 0 THEN 0 ELSE rounds[n].levelPayout + SumLevelPayout(rounds, n - 1)

\* C1: processCascadingReels terminates and records at most 7 rounds, one
\* level-0 round and at most 6 cascade rounds; totalCascades is the number
\* of recorded rounds and never exceeds maxCascades + 1.  Termination is the
\* loop variant: every pass through the loop body raises cascadeLevel by one
\* and cascadeLevel never exceeds 6, so the body runs at most 6 times.
C1_AtMostSevenRounds ==
  /\ [](/\ Len(RecordedRounds) <= 7
        /\ cascadeLevel <= 6
        /\ Len(steps) <= 3 * 6
        /\ Cardinality({ i \in DOMAIN RecordedRounds : RecordedRounds[i].level >= 1 }) <= 6
        /\ result.returned =>
             /\ result.totalCascades = Len(result.cascades)
             /\ result.totalCascades <= maxCascades + 1)
  /\ [][/\ (pc = "loop" /\ pc' \in { "loop", "return" }) =>
             (cascadeLevel' = cascadeLevel + 1 \/ (pc' = "return" /\ UNCHANGED steps))
         /\ (pc = "return" => pc' = "done")
         /\ (pc = "populated" => pc' \in { "loop", "return" })]_vars

C1_Witness ==
  /\ pc = "done"
  /\ result.totalCascades = 7
  /\ reelConfig # << >>

\* C2: the i-th recorded round (0-based) has level i and multiplier
\* [1,2,3,5,8,12,20][min(i, 6)]; the level-0 round has multiplier 1 and no
\* level is skipped or repeated.
C2_LevelsAndMultipliers ==
  \A n \in DOMAIN RecordedRounds :
    /\ RecordedRounds[n].level = n - 1
    /\ RecordedRounds[n].multiplier =
         << 1, 2, 3, 5, 8, 12, 20 >>[IF n - 1 < 6 THEN n ELSE 7]

C2_Witness ==
  /\ pc = "done"
  /\ Len(result.cascades) = 7
  /\ result.cascades[7].multiplier = 20

\* C3: totalWinnings is the sum of levelPayout over all recorded rounds, and
\* each round's totalPayout is the sum of levelPayout of that round and all
\* earlier rounds.
C3_PayoutSums ==
  /\ \A n \in DOMAIN RecordedRounds :
       RecordedRounds[n].totalPayout = SumLevelPayout(RecordedRounds, n)
  /\ result.returned =>
       result.totalWinnings = SumLevelPayout(result.cascades, Len(result.cascades))

C3_Witness ==
  /\ pc = "done"
  /\ Len(result.cascades) >= 3
  /\ result.cascades[1].levelPayout # result.cascades[2].levelPayout
  /\ result.totalWinnings > result.cascades[3].levelPayout

\* the reads of generateNewSymbols, and the reads made before the cascade
RefillLog == SelectSeq(reads, LAMBDA r : r.phase = "refill")

InitialLog == SelectSeq(reads, LAMBDA r : r.phase # "refill")

\* C4: within one call the refill of round k+1 starts reading where the
\* refill of round k stopped: the offset advances by 8 for every refilled
\* cell, so no two refilled cells of a spin read the same 8-bit range.
C4_RefillOffsetsContinue ==
  /\ \A j \in DOMAIN RefillLog :
       j > 1 => RefillLog[j].at = RefillLog[j - 1].at + 8
  /\ \A i, j \in DOMAIN RefillLog :
       i # j => RefillLog[i].at # RefillLog[j].at

\* C5: in a full spin the first cascade refill begins right after the
\* initial population, at bit 18 + 8 x (sum of the reel heights), so no bit
\* read by a refill was read before for the heights or the population.
C5_FirstRefillFollowsPopulation ==
  reelConfig # << >> =>
    /\ RefillLog # << >> =>
         RefillLog[1].at = 18 + 8 * SumHeights(reelConfig, 1)
    /\ \A i \in DOMAIN RefillLog, j \in DOMAIN InitialLog :
         \/ RefillLog[i].at + RefillLog[i].width <= InitialLog[j].at
         \/ InitialLog[j].at + InitialLog[j].width <= RefillLog[i].at

C7_NoInitialWinNoRounds ==
  (pc \in { "loop", "return", "done" } /\ evals # << >> /\ ~evals[1].hasWins) =>
    /\ cascadeResults = << >>
    /\ steps = << >>
    /\ RefillLog = << >>
    /\ Len(evals) = 1
    /\ currentReels = initialReelResult
    /\ pc # "loop"
    /\ result.returned =>
         /\ result.cascades = << >>
         /\ result.totalCascades = 0
         /\ result.totalWinnings = 0
         /\ result.finalReelState = initialReelResult

C7_Witness ==
  /\ pc = "done"
  /\ reelConfig # << >>
  /\ ~evals[1].hasWins
  /\ result.totalCascades = 0

\* C8: when the initial grid wins and the grid after the first removal,
\* drop and refill does not, exactly one round is recorded, at level 0 with
\* multiplier 1, and totalWinnings is that round's unmultiplied payout; a
\* round at level k >= 1 is recorded only if the evaluation of the grid
\* refilled in that step finds a win.
C8_OneRoundWithoutCascadeWin ==
  /\ (pc = "done" /\ Len(evals) >= 2 /\ evals[1].hasWins /\ ~evals[2].hasWins) =>
       /\ Len(result.cascades) = 1
       /\ result.cascades[1].level = 0
       /\ result.cascades[1].multiplier = 1
       /\ result.totalWinnings =
            calculateTotalPayout(result.cascades[1].winningCombinations, betAmount)
       /\ result.totalWinnings = result.cascades[1].levelPayout
  /\ \A n \in DOMAIN RecordedRounds :
       RecordedRounds[n].level >= 1 =>
         \E e \in DOMAIN evals :
           /\ evals[e].level = RecordedRounds[n].level
           /\ evals[e].grid = RecordedRounds[n].reelState
           /\ evals[e].hasWins
           /\ calculateWinningCombinations(RecordedRounds[n].reelState).hasWins

C8_Witness ==
  /\ pc = "done"
  /\ Len(evals) = 2
  /\ evals[1].hasWins
  /\ ~evals[2].hasWins
  /\ Len(result.cascades) = 1
  /\ result.totalWinnings > 0

RECURSIVE SumBasePayout(_, _)
SumBasePayout(combinations, n) ==
  IF n = 0 THEN 0 ELSE combinations[n].basePayout + SumBasePayout(combinations, n - 1)

WithWaysCount(combinations, w) ==
  [ c \in DOMAIN combinations |-> [ combinations[c] EXCEPT !.waysCount = w ] ]

\* C9: every recorded round has levelPayout = multiplier x (sum over its
\* winning combinations of basePayout x betAmount); waysCount does not enter
\* the payout: calculateTotalPayout is the same for any waysCount values.
C9_LevelPayoutFormula ==
  \A n \in DOMAIN RecordedRounds :
    LET round == RecordedRounds[n]
        combos == round.winningCombinations
    IN  /\ round.levelPayout =
             round.multiplier * SumBasePayout(combos, Len(combos)) * betAmount
        /\ \A w \in { 0, 1, 7 } :
             calculateTotalPayout(WithWaysCount(combos, w), betAmount)
               = calculateTotalPayout(combos, betAmount)

C9_Witness ==
  /\ pc = "done"
  /\ \E n \in DOMAIN result.cascades :
       /\ result.cascades[n].multiplier > 1
       /\ Len(result.cascades[n].winningCombinations) >= 2
       /\ \E c \in DOMAIN result.cascades[n].winningCombinations :
            result.cascades[n].winningCombinations[c].waysCount >= 2

(***************************************************************************)
(* Properties of reel generation.                                          *)
(***************************************************************************)
\* the 3 bits at offset 3 * i of the random value
HeightBits(i) ==
  BitAt(vrfNumber, 3 * i) + 2 * BitAt(vrfNumber, 3 * i + 1)
    + 4 * BitAt(vrfNumber, 3 * i + 2)

\* C10: generateReelConfiguration returns exactly 6 reels with reelIndex
\* 0..5 and no cells; reel i has height 2 + ((3 bits at offset 3*i) mod 6),
\* which is in [2,7].
C10_ReelConfiguration ==
  reelConfig # << >> =>
    /\ Len(reelConfig) = 6
    /\ \A k \in 1..6 :
         /\ reelConfig[k].reelIndex = k - 1
         /\ reelConfig[k].symbols = << >>
         /\ reelConfig[k].height = 2 + (HeightBits(k - 1) % 6)
         /\ reelConfig[k].height \in 2..7

C10_Witness ==
  /\ pc = "configured"
  /\ \E k \in 1..6 : HeightBits(k - 1) >= 6
  /\ \E k \in 1..6 : reelConfig[k].height = 7
  /\ \E k \in 1..6 : reelConfig[k].height = 2


(***************************************************************************)
(* Properties of the grid shape.                                           *)
(***************************************************************************)
\* SlotEngineService.validateReelConfiguration
validateReelConfiguration(config, requireSymbols) ==
  /\ Len(config) = 6
  /\ \A r \in DOMAIN config :
       /\ config[r].height >= 2
       /\ config[r].height <= 7
       /\ requireSymbols => Len(config[r].symbols) = config[r].height

SameShape(grid, initial) ==
  /\ Len(grid) = Len(initial)
  /\ \A r \in DOMAIN grid :
       /\ grid[r].height = initial[r].height
       /\ Len(grid[r].symbols) = grid[r].height

NoEmptyCell(grid) ==
  \A r \in DOMAIN grid : \A i \in DOMAIN grid[r].symbols : grid[r].symbols[i] # Null

\* C11: starting from a grid that passes validateReelConfiguration, every
\* grid snapshot recorded in a round and the final grid returned by
\* processCascadingReels have the 6 reel heights of the initial grid, as many
\* cells as the height in every reel, and no empty (null) cell.
C11_GridShapeKept ==
  (initialReelResult # << >> /\ validateReelConfiguration(initialReelResult, TRUE)) =>
    /\ \A n \in DOMAIN RecordedRounds :
         /\ SameShape(RecordedRounds[n].reelState, initialReelResult)
         /\ NoEmptyCell(RecordedRounds[n].reelState)
    /\ result.returned =>
         /\ SameShape(result.finalReelState, initialReelResult)
         /\ NoEmptyCell(result.finalReelState)


(***************************************************************************)
(* Properties of the win evaluation.                                       *)
(***************************************************************************)
\* the cell is the target symbol or a wild that can stand for it
CountsFor(cell, target) ==
  cell = target \/ (cell = "wild" /\ canSubstitute("wild", target))

ReelHasMatch(grid, r, target) ==
  \E i \in DOMAIN grid[r].symbols : CountsFor(grid[r].symbols[i], target)

HasCombinationWhere(Test(_, _)) ==
  \E n \in DOMAIN evals : \E c \in DOMAIN evals[n].combinations :
    Test(evals[n].grid, evals[n].combinations[c])

\* C12: a combination is recorded for a symbol only if the symbol (or a
\* wild that can substitute for it) appears in every reel 0..L-1 with
\* L >= 3 and not in reel L (or L = 6); its length L is in 3..6, it has
\* exactly L positions, the i-th position lies in reel i and is the topmost
\* matching cell of that reel; each symbol yields at most one combination;
\* hasWins is true exactly when the list of combinations is not empty.
C12_CombinationShape ==
  \A n \in DOMAIN evals :
    LET grid == evals[n].grid
        combos == evals[n].combinations
    IN  /\ evals[n].hasWins <=> (combos # << >>)
        /\ \A c, d \in DOMAIN combos : combos[c].symbol = combos[d].symbol => c = d
        /\ \A c \in DOMAIN combos :
             LET t == combos[c].symbol
                 L == combos[c].length
                 pos == combos[c].positions
             IN  /\ L \in 3..6
                 /\ Len(pos) = L
                 /\ \A i \in 1..L :
                      /\ pos[i].reel = i - 1
                      /\ pos[i].position + 1 \in DOMAIN grid[i].symbols
                      /\ CountsFor(grid[i].symbols[pos[i].position + 1], t)
                      /\ \A j \in 1..pos[i].position :
                           ~CountsFor(grid[i].symbols[j], t)
                 /\ (L = 6 \/ ~ReelHasMatch(grid, L + 1, t))

RunBelowTop(grid, combination) ==
  /\ combination.length \in 3..5
  /\ \E i \in DOMAIN combination.positions :
       /\ combination.positions[i].position > 0
       /\ \E j \in DOMAIN grid[i].symbols :
            j > combination.positions[i].position + 1
            /\ CountsFor(grid[i].symbols[j], combination.symbol)

C12_Witness ==
  /\ reelConfig # << >>
  /\ HasCombinationWhere(RunBelowTop)
  /\ \E n \in DOMAIN evals : ~evals[n].hasWins


CellAt(grid, position) == grid[position.reel + 1].symbols[position.position + 1]

\* C13: canSubstitute('wild', t) is true for every regular symbol t and
\* false for 'scatter'; in the evaluator a wild cell counts towards the run
\* of another symbol t only when canSubstitute('wild', t) holds; a wild
\* never extends a scatter run and scatter is never the symbol of a recorded
\* combination.
C13_WildSubstitution ==
  /\ (call.fn = "canSubstitute" /\ call.wildSymbol = "wild") =>
       /\ (call.targetSymbol \in SymbolIdSet /\ SymbolType[call.targetSymbol] = "regular")
            => call.value = TRUE
       /\ call.targetSymbol = "scatter" => call.value = FALSE
  /\ \A n \in DOMAIN evals :
       LET grid == evals[n].grid
           combos == evals[n].combinations
           scatterRun == findSymbolCombination(grid, "scatter")
       IN  /\ \A c \in DOMAIN combos :
                /\ combos[c].symbol # "scatter"
                /\ \A i \in DOMAIN combos[c].positions :
                     (CellAt(grid, combos[c].positions[i]) = "wild"
                      /\ combos[c].symbol # "wild")
                       => canSubstitute("wild", combos[c].symbol)
           /\ \A i \in DOMAIN scatterRun : CellAt(grid, scatterRun[i]) = "scatter"

RunWithWild(grid, combination) ==
  /\ combination.symbol \notin { "wild", "scatter" }
  /\ \E i \in DOMAIN combination.positions :
       CellAt(grid, combination.positions[i]) = "wild"
  /\ \E r \in DOMAIN grid : \E j \in DOMAIN grid[r].symbols :
       grid[r].symbols[j] = "scatter"

C13_Witness == HasCombinationWhere(RunWithWild)


\* C14: in every catalog state reachable through updateSymbolWeight and
\* updateSymbolPayouts calls, the evaluator never records a combination
\* whose symbol is 'wild' or 'scatter', and every recorded combination has
\* basePayout > 0.
C14_NoSpecialCombination ==
  \A n \in DOMAIN evals : \A c \in DOMAIN evals[n].combinations :
    /\ evals[n].combinations[c].symbol \notin { "wild", "scatter" }
    /\ evals[n].combinations[c].basePayout > 0


(***************************************************************************)
(* Properties of the catalog operations.                                   *)
(***************************************************************************)
\* C15: in every catalog state reachable through successful administrative
\* updates, getSymbolPayout(id, n) returns 0 when id is not in the catalog,
\* when n < 3 and when n > 6, and the table entry for n in 3..6 otherwise.
C15_PayoutLookup ==
  call.fn = "getSymbolPayout" =>
    IF call.symbolId \notin SymbolIdSet \/ call.count < 3 \/ call.count > 6
      THEN call.value = 0
      ELSE call.value = payoutTables[call.symbolId][call.count]


\* C16: updateSymbolWeight(id, w) returns false and leaves every weight
\* unchanged when id is unknown or w is negative or zero; it returns true
\* and sets only that symbol's weight to w when id is known and w > 0.
C16_WeightUpdate ==
  [][(pc = "idle" /\ call'.fn = "updateSymbolWeight") =>
       IF call'.symbolId \notin SymbolIdSet \/ call'.newWeight <= 0
         THEN call'.value = FALSE /\ weights' = weights
         ELSE /\ call'.value = TRUE
              /\ weights' = [ weights EXCEPT ![call'.symbolId] = call'.newWeight ]]_vars


\* C17: updateSymbolPayouts(id, t) returns false and leaves all payout
\* tables unchanged when id is unknown or t lacks one of the keys 3, 4, 5, 6
\* or has a non-numeric value at one of them; otherwise it returns true and
\* replaces only that symbol's table by the entries of t; a later change of
\* the caller's object t does not change the catalog.
C17_PayoutUpdate ==
  [][/\ (pc = "idle" /\ call'.fn = "updateSymbolPayouts") =>
          LET id == call'.symbolId
              t == call'.newPayouts
          IN  IF \/ id \notin SymbolIdSet
                 \/ \E key \in 3..6 : key \notin DOMAIN t
                 \/ \E key \in (3..6) \cap DOMAIN t : t[key][1] # "number"
                THEN call'.value = FALSE /\ payoutTables' = payoutTables
                ELSE /\ call'.value = TRUE
                     /\ \A other \in SymbolIdSet \ { id } :
                          payoutTables'[other] = payoutTables[other]
                     /\ DOMAIN payoutTables'[id] = DOMAIN t
                     /\ \A key \in DOMAIN t : payoutTables'[id][key] = t[key][2]
     /\ callerObject' # callerObject /\ pc = "called" => payoutTables' = payoutTables]_vars

C17_Witness ==
  /\ pc = "called"
  /\ call.fn = "updateSymbolPayouts"
  /\ call.value = TRUE
  /\ callerObject # call.newPayouts
  /\ payoutTables[call.symbolId][3] = call.newPayouts[3][2]


CellsOf(grid) == UNION { { grid[r].symbols[i] : i \in DOMAIN grid[r].symbols } : r \in DOMAIN grid }

\* C18: in every catalog state reachable through successful administrative
\* updates, every cell written by populateReels or generateNewSymbols holds
\* an id present in the catalog: a grid built by populateReels holds catalog
\* ids only, and the cells of the grid of processCascadingReels are catalog
\* ids or cells of the grid it was given.
C18_CellsAreCatalogIds ==
  /\ (reelConfig # << >> /\ initialReelResult # << >>) =>
       CellsOf(initialReelResult) \subseteq SymbolIdSet
  /\ pc \in { "loop", "return", "done" } =>
       CellsOf(currentReels) \subseteq SymbolIdSet \cup CellsOf(initialReelResult)


Occurrences(array, id) == Cardinality({ k \in DOMAIN array : array[k] = id })

RECURSIVE SumOfWeights(_, _)
SumOfWeights(Included(_), k) ==
  IF k > Len(SymbolIds)
    THEN 0
    ELSE (IF Included(SymbolIds[k]) THEN weights[SymbolIds[k]] ELSE 0)
         + SumOfWeights(Included, k + 1)

PoolMatches(array, Included(_)) ==
  /\ \A k \in DOMAIN array : array[k] \in SymbolIdSet
  /\ \A id \in SymbolIdSet :
       Occurrences(array, id) = IF Included(id) THEN weights[id] ELSE 0
  /\ Len(array) = SumOfWeights(Included, 1)

\* C19: createWeightedSymbolArray returns a sequence in which every included
\* symbol id occurs exactly as many times as its current weight, the ids
\* listed in excludeSymbols do not occur, with includeSpecial false neither
\* 'wild' nor 'scatter' occurs, and the length is the sum of the weights of
\* the included symbols.  The included symbols are those the function does
\* not skip: the ones not listed in excludeSymbols and, with includeSpecial
\* false, of type 'regular'.
C19_PoolCounts ==
  call.fn = "createWeightedSymbolArray" =>
    LET Included(id) == /\ id \notin call.excludeSymbols
                        /\ (call.includeSpecial \/ SymbolType[id] = "regular")
    IN  /\ PoolMatches(call.value, Included)
        /\ ~call.includeSpecial =>
             \A k \in DOMAIN call.value : call.value[k] \notin { "wild", "scatter" }

C19_Witness ==
  /\ call.fn = "createWeightedSymbolArray"
  /\ ~call.includeSpecial
  /\ call.excludeSymbols = { "btc" }
  /\ weights # InitialWeights
  /\ weights["nft_character"] > 0
  /\ Len(call.value) > 0


(***************************************************************************)
(* Properties of the decoder.                                              *)
(***************************************************************************)
\* the unsigned integer written by a sequence of hex digits
RECURSIVE HexValue(_)
HexValue(digits) ==
  IF digits = << >>
    THEN 0
    ELSE 16 * HexValue(SubSeq(digits, 1, Len(digits) - 1)) + digits[Len(digits)]

\* the number of bits of v: the least b with v < 2^b
RECURSIVE BitLength(_)
BitLength(v) == IF v = 0 THEN 0 ELSE 1 + BitLength(v \div 2)

\* C20: for a well-formed random value v, a start bit s >= 0 and a bit
\* count n >= 1, extractBits returns floor(v / 2^s) mod 2^n, a value in
\* [0, 2^n - 1]; when s is at or beyond the bit length of v the result is 0.
C20_ExtractBitsValue ==
  call.fn = "extractBits" =>
    LET v == HexValue(vrfNumber)
        s == call.startBit
        n == call.bitCount
    IN  /\ call.value = (v \div Pow2(s)) % Pow2(n)
        /\ call.value \in 0..(Pow2(n) - 1)
        /\ s >= BitLength(v) => call.value = 0

C20_Witness ==
  /\ call.fn = "extractBits"
  /\ vrfNumber = << 15, 15 >>
  /\ call.startBit = 6
  /\ call.bitCount = 4
  /\ call.value = 3


(***************************************************************************)
(* The decoder on text.  extractBits hands its first argument to BigInt(), *)
(* which reads a string as ECMAScript's StringToBigInt does: the empty     *)
(* string is 0n, a string of decimal digits is read in base 10, 0x or 0X   *)
(* followed by hex digits is read in base 16, and anything else throws a   *)
(* SyntaxError.  The strings are drawn from an alphabet without white      *)
(* space, signs and the letters b and o (0b and 0o start other literals).  *)
(***************************************************************************)
MaxStringLen == 3

StringAlphabet == { "0", "1", "9", "a", "F", "x", "g" }

RawStrings ==
  UNION { { f \o << >> : f \in [ 1..n -> StringAlphabet ] } : n \in 0..MaxStringLen }

LowerHexChars ==
  << "0", "1", "2", "3", "4", "5", "6", "7", "8", "9", "a", "b", "c", "d", "e", "f" >>

UpperHexChars == << "A", "B", "C", "D", "E", "F" >>

IsDecimalDigit(c) == \E k \in 1..10 : LowerHexChars[k] = c

IsHexDigit(c) ==
  \/ \E k \in 1..16 : LowerHexChars[k] = c
  \/ \E k \in 1..6 : UpperHexChars[k] = c

HexDigitValue(c) ==
  IF \E k \in 1..16 : LowerHexChars[k] = c
    THEN (CHOOSE k \in 1..16 : LowerHexChars[k] = c) - 1
    ELSE (CHOOSE k \in 1..6 : UpperHexChars[k] = c) + 9

RECURSIVE DecimalValue(_, _)
DecimalValue(str, n) ==
  IF n = 0 THEN 0 ELSE 10 * DecimalValue(str, n - 1) + HexDigitValue(str[n])

HasHexPrefix(str) == Len(str) >= 2 /\ str[1] = "0" /\ str[2] \in { "x", "X" }

\* BigInt(vrfNumber) for a string: the hex digits of the value, or a throw
BigIntOf(str) ==
  IF HasHexPrefix(str)
    THEN IF Len(str) > 2 /\ \A k \in 3..Len(str) : IsHexDigit(str[k])
           THEN [ ok |-> TRUE,
                  digits |-> [ k \in 1..(Len(str) - 2) |-> HexDigitValue(str[k + 2]) ] \o << >> ]
           ELSE [ ok |-> FALSE ]
    ELSE IF \A k \in 1..Len(str) : IsDecimalDigit(str[k])
           THEN [ ok |-> TRUE, digits |-> ToHex(DecimalValue(str, Len(str))) ]
           ELSE [ ok |-> FALSE ]

\* extractBits(vrfNumber, startBit, bitCount) called with a string
ExtractBitsOfString ==
  /\ pc = "idle"
  /\ \E startBit \in 0..MaxStartBit, bitCount \in 1..MaxBitCount :
       LET parsed == BigIntOf(vrfString)
       IN  call' = IF parsed.ok
                     THEN [ fn |-> "extractBits", startBit |-> startBit,
                            bitCount |-> bitCount, threw |-> FALSE,
                            value |-> extractBits(parsed.digits, startBit, bitCount) ]
                     ELSE [ fn |-> "extractBits", startBit |-> startBit,
                            bitCount |-> bitCount, threw |-> TRUE ]
  /\ pc' = "called"
  /\ UNCHANGED << catalogVars, adminPlan, adminDone, callerObject, aliased,
                  inputVars, localVars, logVars, callerVars >>

TextInit ==
  /\ weights = InitialWeights
  /\ payoutTables = InitialPayoutTables
  /\ vrfNumber = << >>
  /\ betAmount = 1
  /\ pc = "idle"
  /\ run = 1
  /\ reelConfig = << >>
  /\ initialReelResult = << >>
  /\ cascadeResults = << >>
  /\ currentReels = << >>
  /\ vrfOffset = 0
  /\ cascadeLevel = 0
  /\ totalWinnings = 0
  /\ currentWins = NoWins
  /\ result = NoResult
  /\ reads = << >>
  /\ steps = << >>
  /\ evals = << >>
  /\ firstRun = NoFirstRun
  /\ adminPlan = << >>
  /\ adminDone = 0
  /\ call = NoCall
  /\ callerObject = NoObject
  /\ aliased = Null
  /\ vrfString \in RawStrings
  /\ request = NoRequest
  /\ response = NoResponse
  /\ callerReels = << >>
  /\ suspended = NoSpin

TextNext ==
  \/ ExtractBitsOfString
  \/ CallReturn

TextSpec == TextInit /\ [][TextNext]_vars

\* the text is not 0x followed by hex digits only
Malformed(str) ==
  \/ ~HasHexPrefix(str)
  \/ \E k \in 3..Len(str) : ~IsHexDigit(str[k])

\* C21: extractBits fails with an error, and returns no number, for every
\* random-value string that contains a non-hex character or that lacks the
\* 0x prefix, strings made only of decimal digits included.
C21_MalformedTextFails ==
  (pc = "called" /\ call.fn = "extractBits" /\ Malformed(vrfString)) => call.threw


(***************************************************************************)
(* POST /spin.  The handler checks the request, runs the spin on the       *)
(* shared engine and answers once.  It is synchronous: no other request is *)
(* served between its steps.  Amounts inside nftBonus are in sixteenths,   *)
(* the product of a payout in quarters and a multiplier in quarters.       *)
(***************************************************************************)
\* the multiplier 1, in quarters
One == 4

\* !value, for the values a request field takes here
Falsy(value) == value = Undefined \/ value = ""

\* /^0x[0-9a-fA-F]+$/.test(vrfNumber)
VrfFormat(str) ==
  /\ Len(str) >= 3
  /\ str[1] = "0"
  /\ str[2] = "x"
  /\ \A k \in 3..Len(str) : IsHexDigit(str[k])

\* the text '0x...' of a random value
HexString(digits) ==
  << "0", "x" >> \o [ k \in 1..Len(digits) |-> LowerHexChars[digits[k] + 1] ]

RouteStrings == RawStrings \cup { HexString(v) : v \in TestVrfs }

GameIds == { Undefined, "", "test-game-123" }

NoNftData == [ present |-> FALSE, hasEligibleNFTs |-> FALSE, totalMultiplier |-> One,
               listed |-> FALSE ]

NftData(has, multiplier, listed) ==
  [ present |-> TRUE, hasEligibleNFTs |-> has, totalMultiplier |-> multiplier,
    listed |-> listed ]

\* nftData of the request: absent, or hasEligibleNFTs, totalMultiplier (in
\* quarters) and whether eligibleNFTs is an array
NftOptions ==
  { NoNftData,
    NftData(FALSE, One, TRUE),
    NftData(TRUE, 10, TRUE),
    NftData(TRUE, 8, TRUE),
    NftData(TRUE, One, TRUE),
    NftData(TRUE, 2, TRUE),
    NftData(FALSE, 10, TRUE),
    NftData(TRUE, 8, FALSE) }

ErrorResponse(status, message) ==
  [ sent |-> TRUE, status |-> status, success |-> FALSE, error |-> message ]

NftAppliesWhenListed(nftData) == nftData.present /\ nftData.hasEligibleNFTs

\* if (nftData && nftData.hasEligibleNFTs && nftData.totalMultiplier > 1)
NftApplies(nftData) ==
  nftData.present /\ nftData.hasEligibleNFTs /\ nftData.totalMultiplier > One

RequestErrorNoGameId(body, str) ==
  IF ~body.hasVrfNumber \/ Len(str) = 0 THEN "VRF number is required"
  ELSE IF ~VrfFormat(str) THEN "Invalid VRF number format"
  ELSE "none"

\* the checks of the request body, in the order of the code
RequestError(body, str) ==
  IF Falsy(body.gameId) THEN "Game ID is required"
  ELSE IF ~body.hasVrfNumber \/ Len(str) = 0 THEN "VRF number is required"
  ELSE IF ~VrfFormat(str) THEN "Invalid VRF number format"
  ELSE "none"

\* entry of the handler up to the first engine call
ValidateRequest ==
  /\ pc = "received"
  /\ LET message == RequestError(request, vrfString)
     IN  IF message # "none"
           THEN /\ response' = ErrorResponse(400, message)
                /\ pc' = "responded"
                /\ UNCHANGED vrfNumber
           ELSE /\ vrfNumber' = BigIntOf(vrfString).digits
                /\ pc' = "idle"
                /\ UNCHANGED response
  /\ UNCHANGED << catalogVars, adminVars, betAmount, vrfString, request, otherVars,
                  localVars, logVars, callerVars >>

\* if (!slotEngine.validateReelConfiguration(populatedReels)), then
\* calculateWaysToWin and the entry of processCascadingReels
ValidateGridAndCascade ==
  /\ pc = "populated"
  /\ IF validateReelConfiguration(initialReelResult, TRUE)
       THEN ProcessInitial
       ELSE /\ response' = ErrorResponse(500, "Invalid reel configuration generated")
            /\ pc' = "responded"
            /\ UNCHANGED << catalogVars, adminVars, vrfNumber, betAmount, vrfString,
                            request, otherVars, localVars, logVars, callerVars >>

\* the NFT bonus and res.json
SpinRespond ==
  /\ pc = "done"
  /\ LET nftData == request.nftData
         baseWinnings == result.totalWinnings
         applied == NftApplies(nftData)
         nftMultiplier == IF applied THEN nftData.totalMultiplier ELSE One
         bonusWinnings == IF applied THEN baseWinnings * (nftMultiplier - One) ELSE 0
         finalWinnings == baseWinnings * nftMultiplier
     IN  response' =
           IF applied /\ ~nftData.listed
             THEN ErrorResponse(500, "Cannot read properties of undefined (reading 'map')")
             ELSE [ sent |-> TRUE, status |-> 200, success |-> TRUE,
                    result |->
                      [ gameId |-> request.gameId,
                        betAmount |-> betAmount,
                        waysToWin |-> calculateWaysToWin(initialReelResult),
                        initialReels |-> initialReelResult,
                        cascadeResult |-> result,
                        nftBonus |->
                          [ multiplier |-> nftMultiplier,
                            baseWinnings |-> baseWinnings * One,
                            bonusWinnings |-> bonusWinnings,
                            finalWinnings |-> finalWinnings,
                            applied |-> applied ] ] ]
  /\ pc' = "responded"
  /\ UNCHANGED << catalogVars, adminVars, vrfNumber, betAmount, vrfString, request,
                  otherVars, localVars, logVars, callerVars >>

RouteInit ==
  /\ weights = InitialWeights
  /\ payoutTables = InitialPayoutTables
  /\ vrfNumber = << >>
  /\ betAmount = 100
  /\ pc = "received"
  /\ run = 1
  /\ reelConfig = << >>
  /\ initialReelResult = << >>
  /\ cascadeResults = << >>
  /\ currentReels = << >>
  /\ vrfOffset = 0
  /\ cascadeLevel = 0
  /\ totalWinnings = 0
  /\ currentWins = NoWins
  /\ result = NoResult
  /\ reads = << >>
  /\ steps = << >>
  /\ evals = << >>
  /\ firstRun = NoFirstRun
  /\ adminPlan = << >>
  /\ adminDone = 0
  /\ call = NoCall
  /\ callerObject = NoObject
  /\ aliased = Null
  /\ \E hasVrfNumber \in BOOLEAN :
       /\ vrfString \in IF hasVrfNumber THEN RouteStrings ELSE { << >> }
       /\ \E gameId \in GameIds, nftData \in NftOptions :
            request = [ received |-> TRUE, gameId |-> gameId,
                        hasVrfNumber |-> hasVrfNumber, nftData |-> nftData ]
  /\ response = NoResponse
  /\ callerReels = << >>
  /\ suspended = NoSpin

RouteNext ==
  \/ ValidateRequest
  \/ GenerateReels
  \/ PopulateReels
  \/ ValidateGridAndCascade
  \/ CascadeIteration
  \/ LoopExit
  \/ Return
  \/ SpinRespond

RouteSpec == RouteInit /\ [][RouteNext]_vars


\* C22: a successful answer reports finalWinnings = baseWinnings x m and
\* bonusWinnings = baseWinnings x (m - 1), hence finalWinnings =
\* baseWinnings + bonusWinnings, where m is the supplied totalMultiplier when
\* hasEligibleNFTs is true and totalMultiplier > 1, and m = 1 with bonus 0
\* and applied false in every other case; finalWinnings is never below a
\* non-negative baseWinnings.
C22_NftWinnings ==
  (response.sent /\ response.success) =>
    LET nftData == request.nftData
        bonus == response.result.nftBonus
        base == response.result.cascadeResult.totalWinnings
        eligible == nftData.present /\ nftData.hasEligibleNFTs /\ nftData.totalMultiplier > One
        m == IF eligible THEN nftData.totalMultiplier ELSE One
    IN  /\ bonus.multiplier = m
        /\ bonus.baseWinnings = base * One
        /\ bonus.finalWinnings = base * m
        /\ bonus.bonusWinnings = base * (m - One)
        /\ bonus.finalWinnings = bonus.baseWinnings + bonus.bonusWinnings
        /\ bonus.applied = eligible
        /\ ~eligible => (bonus.bonusWinnings = 0 /\ bonus.finalWinnings = bonus.baseWinnings)
        /\ bonus.baseWinnings >= 0 => bonus.finalWinnings >= bonus.baseWinnings

C22_Witness ==
  /\ response.sent
  /\ response.success
  /\ response.result.nftBonus.applied
  /\ response.result.nftBonus.multiplier = 10
  /\ response.result.nftBonus.baseWinnings > 0
  /\ response.result.nftBonus.bonusWinnings > 0


(***************************************************************************)
(* Two spins on the shared engine.  Each spin keeps its inputs, its        *)
(* position and its locals to itself; the catalog is the engine's.  Switch *)
(* suspends the running spin and resumes the other one, at any step.       *)
(***************************************************************************)
MaxShared == 3

\* random values of VrfLen digits, and 0x1 padded to 64 digits
SharedVrfs ==
  { VrfDigits(seed, VrfLen) : seed \in 1..MaxShared } \cup { Repeat(<< 0 >>, 63) \o << 1 >> }

NewSpin(vrf, bet) ==
  [ started |-> TRUE, vrfNumber |-> vrf, betAmount |-> bet, pc |-> "idle",
    reelConfig |-> << >>, initialReelResult |-> << >>, cascadeResults |-> << >>,
    currentReels |-> << >>, vrfOffset |-> 0, cascadeLevel |-> 0, totalWinnings |-> 0,
    currentWins |-> NoWins, result |-> NoResult, reads |-> << >>, steps |-> << >>,
    evals |-> << >> ]

Switch ==
  /\ suspended.started
  /\ suspended' =
       [ started |-> TRUE, vrfNumber |-> vrfNumber, betAmount |-> betAmount, pc |-> pc,
         reelConfig |-> reelConfig, initialReelResult |-> initialReelResult,
         cascadeResults |-> cascadeResults, currentReels |-> currentReels,
         vrfOffset |-> vrfOffset, cascadeLevel |-> cascadeLevel,
         totalWinnings |-> totalWinnings, currentWins |-> currentWins,
         result |-> result, reads |-> reads, steps |-> steps, evals |-> evals ]
  /\ vrfNumber' = suspended.vrfNumber
  /\ betAmount' = suspended.betAmount
  /\ pc' = suspended.pc
  /\ reelConfig' = suspended.reelConfig
  /\ initialReelResult' = suspended.initialReelResult
  /\ cascadeResults' = suspended.cascadeResults
  /\ currentReels' = suspended.currentReels
  /\ vrfOffset' = suspended.vrfOffset
  /\ cascadeLevel' = suspended.cascadeLevel
  /\ totalWinnings' = suspended.totalWinnings
  /\ currentWins' = suspended.currentWins
  /\ result' = suspended.result
  /\ reads' = suspended.reads
  /\ steps' = suspended.steps
  /\ evals' = suspended.evals
  /\ UNCHANGED << catalogVars, adminVars, requestVars, callerReels, run, firstRun >>

SharedInit ==
  /\ weights = InitialWeights
  /\ payoutTables = InitialPayoutTables
  /\ vrfNumber \in SharedVrfs
  /\ betAmount = 1
  /\ pc = "idle"
  /\ run = 1
  /\ reelConfig = << >>
  /\ initialReelResult = << >>
  /\ cascadeResults = << >>
  /\ currentReels = << >>
  /\ vrfOffset = 0
  /\ cascadeLevel = 0
  /\ totalWinnings = 0
  /\ currentWins = NoWins
  /\ result = NoResult
  /\ reads = << >>
  /\ steps = << >>
  /\ evals = << >>
  /\ firstRun = NoFirstRun
  /\ adminPlan = << >>
  /\ adminDone = 0
  /\ call = NoCall
  /\ callerObject = NoObject
  /\ aliased = Null
  /\ vrfString = Null
  /\ request = NoRequest
  /\ response = NoResponse
  /\ callerReels = << >>
  /\ \E vrf \in SharedVrfs : suspended = NewSpin(vrf, 100)

SharedNext ==
  \/ GenerateReels
  \/ PopulateReels
  \/ UseTestGrid
  \/ ProcessInitial
  \/ CascadeIteration
  \/ LoopExit
  \/ Return
  \/ Switch

SharedSpec == SharedInit /\ [][SharedNext]_vars

\* processCascadingReels from the while loop on, run without interruption
RECURSIVE CascadeAlone(_, _, _, _, _, _, _, _)
CascadeAlone(reels, wins, level, offset, total, rounds, vrf, bet) ==
  IF ~LoopCondition(wins, level)
    THEN [ returned |-> TRUE, cascades |-> rounds, finalReelState |-> reels,
           totalCascades |-> Len(rounds), totalWinnings |-> total,
           maxMultiplierReached |-> MaxMultiplier(rounds) ]
    ELSE LET next == level + 1
             refilled == generateNewSymbols(
                           dropSymbolsDown(removeWinningSymbols(reels, wins.combinations)),
                           vrf, offset)
             cascadeWins == calculateWinningCombinations(refilled)
             cascadeMultiplier == getCascadeMultiplier(next)
             multipliedPayout == MultipliedPayout(cascadeWins, bet, cascadeMultiplier)
         IN  IF CascadeRoundRecorded(cascadeWins)
               THEN CascadeAlone(refilled, cascadeWins, next, AdvanceOffset(offset, refilled),
                                 total + multipliedPayout,
                                 Append(rounds,
                                        CascadeRound(next, refilled, cascadeWins,
                                                     cascadeMultiplier, multipliedPayout,
                                                     total + multipliedPayout)),
                                 vrf, bet)
               ELSE [ returned |-> TRUE, cascades |-> rounds, finalReelState |-> refilled,
                      totalCascades |-> Len(rounds), totalWinnings |-> total,
                      maxMultiplierReached |-> MaxMultiplier(rounds) ]

\* processCascadingReels(grid, vrf, bet) run alone against the catalog
processCascadingReelsAlone(grid, vrf, bet) ==
  LET copy == JsonCopy(grid)
      initialWins == calculateWinningCombinations(copy)
      initialPayout == calculateTotalPayout(initialWins.combinations, bet)
  IN  IF InitialRoundRecorded(initialWins)
        THEN CascadeAlone(copy, initialWins, InitialCascadeLevel, InitialVrfOffset,
                          initialPayout,
                          << CascadeRound(0, copy, initialWins, cascadeMultipliers[1],
                                          initialPayout, initialPayout) >>,
                          vrf, bet)
        ELSE [ returned |-> TRUE, cascades |-> << >>, finalReelState |-> copy,
               totalCascades |-> 0, totalWinnings |-> 0, maxMultiplierReached |-> 1 ]

\* what a spin holds once it has returned, compared with the same spin alone
SpinAsAlone(spin) ==
  spin.result.returned =>
    /\ spin.reelConfig # << >> =>
         /\ spin.reelConfig = generateReelConfiguration(spin.vrfNumber)
         /\ spin.initialReelResult = populateReels(spin.vrfNumber, spin.reelConfig)
    /\ spin.result =
         processCascadingReelsAlone(spin.initialReelResult, spin.vrfNumber, spin.betAmount)

\* the running spin, as a record like the suspended one
RunningSpin ==
  [ started |-> TRUE, vrfNumber |-> vrfNumber, betAmount |-> betAmount, pc |-> pc,
    reelConfig |-> reelConfig, initialReelResult |-> initialReelResult,
    cascadeResults |-> cascadeResults, currentReels |-> currentReels,
    vrfOffset |-> vrfOffset, cascadeLevel |-> cascadeLevel,
    totalWinnings |-> totalWinnings, currentWins |-> currentWins,
    result |-> result, reads |-> reads, steps |-> steps, evals |-> evals ]

\* C23: a spin changes neither the catalog nor the grid object its caller
\* passed in (the configuration handed to populateReels is still the one
\* generateReelConfiguration returned, the grid handed to
\* processCascadingReels is still the populated one), so with two spins
\* interleaved step by step on the shared engine each spin returns what it
\* returns when run alone against that catalog.
C23_SpinsDoNotInterfere ==
  /\ weights = InitialWeights
  /\ payoutTables = InitialPayoutTables
  /\ SpinAsAlone(RunningSpin)
  /\ SpinAsAlone(suspended)

C23_Witness ==
  /\ result.returned
  /\ suspended.result.returned
  /\ result.totalCascades >= 2
  /\ suspended.result.totalWinnings > 0
  /\ suspended.vrfNumber # vrfNumber
  /\ reelConfig # << >>
  /\ suspended.reelConfig # << >>


\* the request lacks a gameId or a vrfNumber, or its vrfNumber is not 0x
\* followed by one or more hex digits
BadRequest ==
  \/ Falsy(request.gameId)
  \/ ~request.hasVrfNumber
  \/ ~VrfFormat(vrfString)

\* nothing of a spin exists: no configuration, no grid, no bit read, no round
NothingGenerated ==
  /\ reelConfig = << >>
  /\ initialReelResult = << >>
  /\ reads = << >>
  /\ evals = << >>
  /\ cascadeResults = << >>
  /\ ~result.returned

\* C24: POST /spin answers a request without gameId, without vrfNumber or
\* with a vrfNumber that is not 0x followed by hex digits with an error and
\* no spin result, before any reel is generated; every response carries
\* either success and the complete spin result or success = false and an
\* error, never both.
C24_RequestValidation ==
  /\ (BadRequest /\ pc # "received") =>
       /\ response.sent
       /\ ~response.success
       /\ response.status = 400
       /\ NothingGenerated
  /\ (~BadRequest /\ pc # "received" /\ ~response.sent) => vrfNumber # << >>
  /\ response.sent =>
       IF response.success
         THEN /\ DOMAIN response = { "sent", "status", "success", "result" }
              /\ response.result.initialReels = populateReels(vrfNumber, reelConfig)
              /\ validateReelConfiguration(response.result.initialReels, TRUE)
              /\ response.result.cascadeResult.returned
              /\ response.result.cascadeResult =
                   processCascadingReelsAlone(initialReelResult, vrfNumber, betAmount)
              /\ response.result.waysToWin = calculateWaysToWin(initialReelResult)
         ELSE /\ DOMAIN response = { "sent", "status", "success", "error" }
              /\ response.error # ""

C24_Witness ==
  /\ response.sent
  /\ ~response.success
  /\ response.error = "Invalid VRF number format"
  /\ ~Falsy(request.gameId)
  /\ Len(vrfString) = 3
  /\ HasHexPrefix(vrfString)


(***************************************************************************)
(* The grid operations on their own: a caller holds a grid and hands it to *)
(* calculateWaysToWin, removeWinningSymbols, dropSymbolsDown or            *)
(* generateNewSymbols.  The call record keeps the grid as it was when the  *)
(* call was made, the other arguments and what the call returned.          *)
(***************************************************************************)
MaxCells == 3

HeightsTried == { 2, 5, 7, 8 }

\* six reels of the heights tried, filled like the maxReels of the tests,
\* and the test grid of heights 2..7
WaysGrids ==
  { [ k \in 1..6 |-> TestReel(heights[k], Repeat(<< "btc" >>, heights[k])) ] \o << >> :
      heights \in [ 1..6 -> HeightsTried ] }
  \cup { [ k \in 1..6 |-> TestReel(k + 1, Repeat(<< "btc" >>, k + 1)) ] \o << >> }

\* the reels of up to MaxCells cells, each cell empty or one of two symbols
CellReels ==
  UNION { { TestReel(n, cells \o << >>) : cells \in [ 1..n -> { Null, "btc", "eth" } ] } :
          n \in 1..MaxCells }

\* grids of one or two such reels, as short as the grids of the tests
CellGrids == { << a >> : a \in CellReels } \cup { << a, b >> : a, b \in CellReels }

\* the two grids of the removal tests
RemovalGrids ==
  { << TestReel(3, << "btc", "eth", "sol" >>),
       TestReel(3, << "btc", "defi_token", "nft_common" >>),
       TestReel(3, << "btc", "blockchain", "wallet" >>),
       TestReel(3, << "diamond_hands", "eth", "sol" >>),
       TestReel(3, << "nft_common", "defi_token", "blockchain" >>),
       TestReel(3, << "wallet", "diamond_hands", "scatter" >>) >>,
    << TestReel(3, << "btc", "eth", "sol" >>),
       TestReel(3, << "btc", "eth", "nft_common" >>),
       TestReel(3, << "btc", "eth", "wallet" >>),
       TestReel(3, << "diamond_hands", "defi_token", "sol" >>),
       TestReel(3, << "nft_common", "blockchain", "blockchain" >>),
       TestReel(3, << "wallet", "diamond_hands", "scatter" >>) >> }

GridInputs == WaysGrids \cup CellGrids \cup RemovalGrids \cup TestGrids

GridVrfs ==
  { Repeat(<< 1, 2, 3, 4, 5, 6, 7, 8, 9, 0, 10, 11, 12, 13, 14, 15 >>, 4),
    VrfDigits(1, VrfLen) }

Position(reel, position) == [ reel |-> reel, position |-> position ]

Combination(symbol, positions) == [ symbol |-> symbol, positions |-> positions ]

\* winning combinations handed to removeWinningSymbols: none, the two lists
\* of the tests, two combinations that share a cell, and positions outside
\* the grid
CombinationLists ==
  { << >>,
    << Combination("btc", << Position(0, 0), Position(1, 0), Position(2, 0) >>) >>,
    << Combination("btc", << Position(0, 0), Position(1, 0), Position(2, 0) >>),
       Combination("eth", << Position(0, 1), Position(1, 1), Position(2, 1) >>) >>,
    << Combination("btc", << Position(0, 0), Position(1, 0) >>),
       Combination("eth", << Position(0, 0), Position(0, 1) >>) >>,
    << Combination("btc", << Position(0, 9), Position(7, 0) >>) >> }

\* the caller's calculateWaysToWin(reels)
CalculateWaysToWin ==
  /\ pc = "idle"
  /\ callerReels # << >>
  /\ call' = [ fn |-> "calculateWaysToWin", reelResult |-> callerReels,
               value |-> calculateWaysToWin(callerReels) ]
  /\ pc' = "called"
  /\ UNCHANGED << catalogVars, adminPlan, adminDone, callerObject, aliased,
                  inputVars, localVars, logVars, callerVars >>

\* the caller's removeWinningSymbols(reels, winningCombinations)
RemoveWinningSymbols ==
  /\ pc = "idle"
  /\ callerReels # << >>
  /\ \E winningCombinations \in
          CombinationLists \cup
          ( IF Len(callerReels) = 6 /\ NoEmptyCell(callerReels)
              THEN { calculateWinningCombinations(callerReels).combinations }
              ELSE { } ) :
       LET modifiedReels == removeWinningSymbols(callerReels, winningCombinations)
       IN  /\ call' = [ fn |-> "removeWinningSymbols", reelResult |-> callerReels,
                        winningCombinations |-> winningCombinations,
                        value |-> modifiedReels ]
           /\ callerReels' = AfterDeepCopy(callerReels, modifiedReels)
  /\ pc' = "called"
  /\ UNCHANGED << catalogVars, adminPlan, adminDone, callerObject, aliased, vrfNumber,
                  betAmount, requestVars, suspended, localVars, logVars, callerVars >>

\* the caller's dropSymbolsDown(reels), and dropSymbolsDown of what it returned
DropSymbolsDown ==
  /\ pc = "idle"
  /\ callerReels # << >>
  /\ LET droppedReels == dropSymbolsDown(callerReels)
     IN  /\ call' = [ fn |-> "dropSymbolsDown", reelResult |-> callerReels,
                      value |-> droppedReels, again |-> dropSymbolsDown(droppedReels) ]
         /\ callerReels' = AfterDeepCopy(callerReels, droppedReels)
  /\ pc' = "called"
  /\ UNCHANGED << catalogVars, adminPlan, adminDone, callerObject, aliased, vrfNumber,
                  betAmount, requestVars, suspended, localVars, logVars, callerVars >>

GridInit ==
  /\ weights = InitialWeights
  /\ payoutTables = InitialPayoutTables
  /\ vrfNumber \in GridVrfs
  /\ betAmount = 1
  /\ pc = "idle"
  /\ run = 1
  /\ reelConfig = << >>
  /\ initialReelResult = << >>
  /\ cascadeResults = << >>
  /\ currentReels = << >>
  /\ vrfOffset = 0
  /\ cascadeLevel = 0
  /\ totalWinnings = 0
  /\ currentWins = NoWins
  /\ result = NoResult
  /\ reads = << >>
  /\ steps = << >>
  /\ evals = << >>
  /\ firstRun = NoFirstRun
  /\ adminPlan = << >>
  /\ adminDone = 0
  /\ call = NoCall
  /\ callerObject = NoObject
  /\ aliased = Null
  /\ vrfString = Null
  /\ request = NoRequest
  /\ response = NoResponse
  /\ callerReels \in GridInputs
  /\ suspended = NoSpin

GridNext ==
  \/ CalculateWaysToWin
  \/ RemoveWinningSymbols
  \/ DropSymbolsDown
  \/ GenerateNewSymbols
  \/ CallReturn

GridSpec == GridInit /\ [][GridNext]_vars

NonEmptyCells(symbols) == SelectSeq(symbols, LAMBDA x : x # Null)

\* C26: dropSymbolsDown returns, for every reel, as many cells as the reel's
\* height, all empty cells first (top) and the non-empty cells after them in
\* their original order, so the non-empty symbols of each reel are the same;
\* the caller's grid is not modified, and dropSymbolsDown of the result is
\* the result.
C26_DropSymbolsDown ==
  call.fn = "dropSymbolsDown" =>
    /\ Len(call.value) = Len(call.reelResult)
    /\ \A r \in DOMAIN call.reelResult :
         LET before == call.reelResult[r].symbols
             after == call.value[r].symbols
         IN  /\ call.value[r].height = call.reelResult[r].height
             /\ Len(after) = call.reelResult[r].height
             /\ \E n \in 0..Len(after) :
                  /\ \A i \in 1..n : after[i] = Null
                  /\ \A i \in (n + 1)..Len(after) : after[i] # Null
             /\ NonEmptyCells(after) = NonEmptyCells(before)
    /\ callerReels = call.reelResult
    /\ call.again = call.value

C26_Witness ==
  /\ call.fn = "dropSymbolsDown"
  /\ Len(call.reelResult) = 2
  /\ call.reelResult[1].symbols = << "btc", Null, "eth" >>
  /\ call.value[1].symbols = << Null, "btc", "eth" >>
  /\ call.reelResult[2].symbols = << "eth", Null >>
  /\ call.value[2].symbols = << Null, "eth" >>


\* the cell at reel r, place i (both from 1) is listed by a combination
Listed(winningCombinations, r, i) ==
  \E c \in DOMAIN winningCombinations :
    \E p \in DOMAIN winningCombinations[c].positions :
      /\ winningCombinations[c].positions[p].reel = r - 1
      /\ winningCombinations[c].positions[p].position = i - 1

\* C27: removeWinningSymbols returns a grid in which the cells listed in the
\* positions of the given combinations are empty, whether one or several
\* combinations list them, and every other cell holds what it held before,
\* so that for a grid without empty cells exactly the listed cells are
\* empty; the heights and the caller's grid are unchanged.
C27_RemoveWinningSymbols ==
  call.fn = "removeWinningSymbols" =>
    /\ Len(call.value) = Len(call.reelResult)
    /\ \A r \in DOMAIN call.reelResult :
         /\ call.value[r].height = call.reelResult[r].height
         /\ Len(call.value[r].symbols) = Len(call.reelResult[r].symbols)
         /\ \A i \in DOMAIN call.reelResult[r].symbols :
              /\ Listed(call.winningCombinations, r, i) => call.value[r].symbols[i] = Null
              /\ ~Listed(call.winningCombinations, r, i) =>
                   call.value[r].symbols[i] = call.reelResult[r].symbols[i]
              /\ NoEmptyCell(call.reelResult) =>
                   (call.value[r].symbols[i] = Null <=> Listed(call.winningCombinations, r, i))
    /\ callerReels = call.reelResult

C27_Witness ==
  /\ call.fn = "removeWinningSymbols"
  /\ Len(call.reelResult) = 6
  /\ NoEmptyCell(call.reelResult)
  /\ Len(call.winningCombinations) = 2
  /\ Listed(<< call.winningCombinations[1] >>, 1, 1)
  /\ Listed(<< call.winningCombinations[2] >>, 1, 1)
  /\ call.value[1].symbols = << Null, Null, "sol" >>
  /\ call.value[2].symbols[1] = Null
  /\ call.value[2].symbols[2] # Null


\* how many cells before place k of the flattened grid are empty
EmptyBefore(cells, k) == Cardinality({ j \in 1..(k - 1) : cells[j] = Null })

\* C28: generateNewSymbols(grid, v, off) leaves every non-empty cell as it
\* is and fills every empty cell with a symbol: the j-th empty cell (from 0)
\* in reel-then-position order receives pool[(8 bits of v at off + 8 j) mod
\* poolSize], so the call reads 8 bits per empty cell at off, off + 8, ...,
\* and the caller's grid is not modified.
C28_GenerateNewSymbols ==
  call.fn = "generateNewSymbols" =>
    LET before == FlattenFrom(call.reelResult, 1)
        after == FlattenFrom(call.value, 1)
        pool == createWeightedSymbolArray(TRUE, {})
        empties == Cardinality({ k \in DOMAIN before : before[k] = Null })
    IN  /\ Len(call.value) = Len(call.reelResult)
        /\ \A r \in DOMAIN call.reelResult :
             /\ call.value[r].height = call.reelResult[r].height
             /\ Len(call.value[r].symbols) = Len(call.reelResult[r].symbols)
        /\ \A k \in DOMAIN before :
             IF before[k] # Null
               THEN after[k] = before[k]
               ELSE /\ after[k] \in SymbolIdSet
                    /\ after[k] =
                         pool[(extractBits(vrfNumber,
                                           call.vrfOffset + 8 * EmptyBefore(before, k), 8)
                               % Len(pool)) + 1]
        /\ call.reads = [ j \in 1..empties |-> call.vrfOffset + 8 * (j - 1) ]
        /\ Len(call.reads) * 8 = 8 * empties
        /\ callerReels = call.reelResult


(***************************************************************************)
(* Spins on random values below 2^256: at most 64 hex digits, which is the *)
(* size of the values the tests and the route's callers send.              *)
(***************************************************************************)
ShortVrfs ==
  TestVrfs
  \cup { VrfDigits(seed, 64) : seed \in 1..MaxSeed }
  \cup { << 1 >>, << 2, 13, 11, 6, 13 >>, VrfDigits(7, 16) }

ShortValueInit ==
  /\ weights = InitialWeights
  /\ payoutTables = InitialPayoutTables
  /\ vrfNumber \in ShortVrfs
  /\ betAmount \in BetAmounts
  /\ pc = "idle"
  /\ run = 1
  /\ reelConfig = << >>
  /\ initialReelResult = << >>
  /\ cascadeResults = << >>
  /\ currentReels = << >>
  /\ vrfOffset = 0
  /\ cascadeLevel = 0
  /\ totalWinnings = 0
  /\ currentWins = NoWins
  /\ result = NoResult
  /\ reads = << >>
  /\ steps = << >>
  /\ evals = << >>
  /\ firstRun = NoFirstRun
  /\ adminPlan = << >>
  /\ adminDone = 0
  /\ call = NoCall
  /\ callerObject = NoObject
  /\ aliased = Null
  /\ vrfString = Null
  /\ request = NoRequest
  /\ response = NoResponse
  /\ callerReels = << >>
  /\ suspended = NoSpin

ShortValueNext ==
  \/ GenerateReels
  \/ PopulateReels
  \/ UseTestGrid
  \/ ProcessInitial
  \/ CascadeIteration
  \/ LoopExit
  \/ Return

ShortValueSpec == ShortValueInit /\ [][ShortValueNext]_vars

\* the grid with every empty cell replaced by the symbol
FilledWith(grid, symbol) ==
  [ r \in DOMAIN grid |->
      [ grid[r] EXCEPT !.symbols =
          [ i \in DOMAIN grid[r].symbols |->
              IF grid[r].symbols[i] = Null THEN symbol ELSE grid[r].symbols[i] ] \o << >> ] ]
  \o << >>

\* C29: with the constructed catalog and a random value of at most 64 hex
\* digits, every 8-bit field read for a refill is 0 and every refilled cell
\* receives the first symbol of the weighted pool, diamond_hands; hence a
\* spin whose initial grid has a win records exactly 7 rounds, levels 0 to
\* 6, and ends with multiplier 20.
C29_ShortValueCascade ==
  /\ Len(vrfNumber) <= 64
  /\ createWeightedSymbolArray(TRUE, {})[1] = "diamond_hands"
  /\ \A n \in DOMAIN reads :
       reads[n].phase = "refill" =>
         /\ reads[n].at >= 256
         /\ extractBits(vrfNumber, reads[n].at, reads[n].width) = 0
  /\ \A n \in DOMAIN evals :
       n > 1 =>
         evals[n].grid =
           FilledWith(dropSymbolsDown(removeWinningSymbols(evals[n - 1].grid,
                                                           evals[n - 1].combinations)),
                      "diamond_hands")
  /\ (result.returned /\ evals[1].hasWins) =>
       /\ result.totalCascades = 7
       /\ Len(result.cascades) = 7
       /\ \A n \in 1..7 : result.cascades[n].level = n - 1
       /\ result.cascades[7].multiplier = 20
       /\ result.maxMultiplierReached = 20

C29_Witness ==
  /\ result.returned
  /\ reelConfig # << >>
  /\ Len(vrfNumber) = 64
  /\ evals[1].hasWins
  /\ result.totalCascades = 7
  /\ \E r \in 1..6 : \E i \in DOMAIN initialReelResult[r].symbols :
       initialReelResult[r].symbols[i] \notin { "diamond_hands", "wild" }


\* C30: for every bet >= 0 and every catalog state reached through
\* successful administrative updates, payout tables with negative entries
\* included, every recorded round has levelPayout >= 0, totalPayout does not
\* decrease from one round to the next, and totalWinnings >= 0.
C30_PayoutsNeverNegative ==
  /\ betAmount >= 0
  /\ \A n \in DOMAIN RecordedRounds :
       /\ RecordedRounds[n].levelPayout >= 0
       /\ n > 1 => RecordedRounds[n].totalPayout >= RecordedRounds[n - 1].totalPayout
       /\ \A c \in DOMAIN RecordedRounds[n].winningCombinations :
            RecordedRounds[n].winningCombinations[c].basePayout > 0
  /\ totalWinnings >= 0
  /\ result.returned => result.totalWinnings >= 0

C30_Witness ==
  /\ result.returned
  /\ betAmount = 1
  /\ Len(findSymbolCombination(initialReelResult, "btc")) >= 3
  /\ calculateSymbolPayout("btc", Len(findSymbolCombination(initialReelResult, "btc"))) < 0
  /\ result.totalWinnings > 0
  /\ \A n \in DOMAIN result.cascades :
       \A c \in DOMAIN result.cascades[n].winningCombinations :
         result.cascades[n].winningCombinations[c].symbol # "btc"

=============================================================================
